---------------------------- MODULE Spec2Model ----------------------------
(***************************************************************************)
(* Model of linguci (src/linguci.js): catalog synchronization              *)
(* (_syncEntriesFromSource), backlog extraction                            *)
(* (_findEntriesNeedingTranslation), batch planning (_createSchemaBatches) *)
(* and the windowed, retrying task executor (executeTranslations).         *)
(*                                                                         *)
(* The specifications share the variables:                                 *)
(*   SpecSync   a source and a target file parsed entry by entry, then     *)
(*              synchronization (once, twice) and backlog extraction;      *)
(*   SpecBatch  a backlog and a batchSize drawn from bounded sets, then    *)
(*              batch planning;                                            *)
(*   SpecMerge  _updateTranslationPoWithResults on a catalog, a context    *)
(*              key and a response drawn from bounded sets;                *)
(*   Spec       createTranslationBatches followed by executeTranslations;  *)
(*   FairSpec   Spec with weak fairness of the event loop;                 *)
(*   HungSpec   Spec with weak fairness for all tasks but the last of each *)
(*              window, whose provider call may hang;                      *)
(*   SpecPlan   validateConfig, createTranslationBatches and the start of  *)
(*              executeTranslations on bounded configurations and disks;   *)
(*   SpecAlias  the catalogs as object graphs: parsing, synchronization of *)
(*              one source into two targets, then merges.                  *)
(***************************************************************************)
EXTENDS Integers, Sequences, FiniteSets, TLC

VARIABLES
    pc,                 \* position of the run
    sourcePo,           \* the parsed source catalog
    translationPo,      \* the target catalog (mutated in place by the code)
    prePo,              \* history: the target as parsed, before synchronization
    oncePo,             \* history: the target after the first synchronization
    threw,              \* TRUE when the last call ended by a thrown TypeError
    emptyMsgStrs,       \* result of _findEntriesNeedingTranslation
    batchSize,          \* createTranslationBatches' option
    schemaBatches,      \* result of _createSchemaBatches
    config,             \* this.config: base_path, locales, files
    files,              \* the .po files on disk: path -> parsed content
    translationPos,     \* this.translationPos: sourcePath -> translationPath -> po
    translationBatches, \* this.translationBatches: ... -> context -> batch -> schema
    languageConcurrency,\* executeTranslations' options
    maxRetries,
    translationTasks,   \* the task queue
    loopIndex,          \* processTasks' loop variable i
    taskPc,             \* per task: "idle", "request", "delay", "fulfilled", "rejected"
    retries,            \* per task: executeTask's retries
    attempts,           \* history: per task, the generateObject calls issued
    results,            \* processTasks' results
    summary,            \* the counts logged at line 619
    taskObject,         \* per task: executeTask's object (line 502)
    plannedPos,         \* history: translationPos as createTranslationBatches left it
    mergeContextKey,    \* SpecMerge: the contextKey argument of the merge
    mergeObject,        \* SpecMerge: the object argument of the merge
    heap,               \* SpecAlias: the objects allocated, by address
    sourceRef,          \* SpecAlias: the source catalog, its entries by reference
    targetRefs,         \* SpecAlias: the target catalogs, their entries by reference
    merged              \* SpecAlias: the merges done

catalogVars == <<sourcePo, translationPo, prePo, oncePo, threw, emptyMsgStrs,
                 batchSize, schemaBatches>>

runVars == <<config, files, translationPos, translationBatches, languageConcurrency,
             maxRetries, translationTasks, loopIndex, taskPc, retries, attempts, results,
             summary, taskObject, plannedPos>>

mergeVars == <<mergeContextKey, mergeObject>>

heapVars == <<heap, sourceRef, targetRefs, merged>>

vars == <<pc, catalogVars, runVars, mergeVars, heapVars>>

---------------------------------------------------------------------------
(* Bounds *)

\* total number of entries of the source and the target catalog together
MaxEntries == 3

\* number of entries of a backlog handed to the batch planner
MaxBacklog == 4

\* largest batchSize tried
MaxBatchSize == 3

---------------------------------------------------------------------------
(* JavaScript plain objects.  An object is the sequence of its own          *)
(* enumerable properties <<[k, v], ...>> in enumeration order (for-in,      *)
(* Object.keys): array-index keys ascending first, then the other string    *)
(* keys in insertion order.  Property reads fall back to Object.prototype.  *)

Undefined == [tag |-> "undefined"]

\* what obj[k] yields when k is not an own property but Object.prototype has it
InheritedFunction == [tag |-> "function"]

ObjectPrototypeKeys ==
    {"constructor", "toString", "valueOf", "hasOwnProperty", "isPrototypeOf",
     "propertyIsEnumerable", "toLocaleString"}

\* what fn[k] yields for a string-valued own property of a function (fn.name)
FunctionName == [tag |-> "primitive"]

\* the own properties of a function of Object.prototype that hold a non-empty
\* string
FunctionStringKeys == {"name"}

EmptyObj == [tag |-> "object", props |-> <<>>]

\* Object.keys(o): the sequence of own keys in enumeration order
OwnKeys(o) == [i \in 1..Len(o.props) |-> o.props[i].k]

Size(o) == Len(o.props)

KeyAt(o, i) == o.props[i].k

ValueAt(o, i) == o.props[i].v

HasOwn(o, k) == \E i \in 1..Len(o.props) : o.props[i].k = k

OwnIndex(o, k) == CHOOSE i \in 1..Len(o.props) : o.props[i].k = k

\* o[k], o a plain object or a function of Object.prototype
Get(o, k) ==
    IF o.tag = "function"
    THEN IF k \in FunctionStringKeys THEN FunctionName
         ELSE IF k \in ObjectPrototypeKeys THEN InheritedFunction
         ELSE Undefined
    ELSE IF HasOwn(o, k) THEN o.props[OwnIndex(o, k)].v
    ELSE IF k \in ObjectPrototypeKeys THEN InheritedFunction
    ELSE Undefined

\* ToBoolean of a property read: objects and functions are truthy
Truthy(v) == v.tag # "undefined"

Digits == <<"0", "1", "2", "3", "4", "5", "6", "7", "8", "9">>

IsArrayIndex(k) == \E n \in 1..Len(Digits) : Digits[n] = k

ArrayIndex(k) == (CHOOSE n \in 1..Len(Digits) : Digits[n] = k) - 1

\* number of own properties that enumerate before a new key k
InsertPos(o, k) ==
    IF IsArrayIndex(k)
    THEN Cardinality({i \in 1..Size(o) :
            IsArrayIndex(KeyAt(o, i)) /\ ArrayIndex(KeyAt(o, i)) < ArrayIndex(k)})
    ELSE Size(o)

\* o[k] = v
Put(o, k, v) ==
    IF HasOwn(o, k)
    THEN [o EXCEPT !.props[OwnIndex(o, k)] = [k |-> k, v |-> v]]
    ELSE LET p == InsertPos(o, k)
         IN  [o EXCEPT !.props = SubSeq(o.props, 1, p) \o <<[k |-> k, v |-> v]>>
                                   \o SubSeq(o.props, p + 1, Size(o))]

---------------------------------------------------------------------------
(* Catalog model (gettext-parser's PO object): po.translations maps a       *)
(* context name to an object mapping msgid to an entry.                     *)

\* A translated string (an element of msgstr, a value of a provider response)
\* is the sequence of its characters; property keys are TLA+ strings.
EmptyString == <<>>

StrS == <<"S">>

StrT == <<"T">>

Entry(msgid, msgstr, comments) ==
    [tag |-> "entry", msgid |-> msgid, msgstr |-> msgstr, comments |-> comments]

EmptyPo == [translations |-> EmptyObj]

\* gettextParser.po.parse storing one token of the file
ParseAdd(po, msgctxt, token) ==
    LET t0 == po.translations
        t1 == IF ~Truthy(Get(t0, msgctxt)) THEN Put(t0, msgctxt, EmptyObj) ELSE t0
    IN  [po EXCEPT !.translations =
            Put(t1, msgctxt, Put(Get(t1, msgctxt), token.msgid, token))]

ContextKeys == {"", "menu"}

Msgids == {"", "hello", "1", "constructor"}

SourceMsgstrs == {<<StrS>>}

TargetMsgstrs == {<<>>, <<EmptyString>>, <<StrT>>}

\* number of entries of a catalog
EntryCount(po) ==
    LET RECURSIVE Sum(_)
        Sum(n) == IF n = 0 THEN 0
                  ELSE Size(ValueAt(po.translations, n)) + Sum(n - 1)
    IN  Sum(Size(po.translations))

\* the file holds no entry for msgid in context msgctxt yet
NewToken(po, msgctxt, msgid) ==
    IF HasOwn(po.translations, msgctxt)
    THEN ~HasOwn(Get(po.translations, msgctxt), msgid)
    ELSE TRUE

---------------------------------------------------------------------------
(* _syncEntriesFromSource *)

\* SyncMsgid overwriting an entry the target already has with the source's
SyncMsgidOverwrite(sourceContext, translationContext, msgid) ==
    LET src == Get(sourceContext, msgid)
    IN  [ctx   |-> Put(translationContext, msgid,
                       IF msgid # "" THEN [src EXCEPT !.msgstr = <<EmptyString>>] ELSE src),
         threw |-> FALSE]

\* SyncMsgid creating an entry with msgstr = [] instead of [""]
SyncMsgidEmptyArray(sourceContext, translationContext, msgid) ==
    LET cur == Get(translationContext, msgid)
        src == Get(sourceContext, msgid)
    IN  IF ~Truthy(cur)
        THEN [ctx   |-> Put(translationContext, msgid,
                            IF msgid # "" THEN [src EXCEPT !.msgstr = <<>>]
                            ELSE src),
              threw |-> FALSE]
        ELSE IF msgid # "" /\ cur.tag = "entry" /\ Len(cur.msgstr) = 0
        THEN [ctx   |-> Put(translationContext, msgid, [cur EXCEPT !.msgstr = <<EmptyString>>]),
              threw |-> FALSE]
        ELSE [ctx |-> translationContext, threw |-> msgid # "" /\ cur.tag # "entry"]

\* SyncMsgid copying a missing entry without clearing its translation
SyncMsgidVerbatim(sourceContext, translationContext, msgid) ==
    LET cur == Get(translationContext, msgid)
        src == Get(sourceContext, msgid)
    IN  IF ~Truthy(cur)
        THEN [ctx |-> Put(translationContext, msgid, src), threw |-> FALSE]
        ELSE IF msgid # "" /\ cur.tag = "entry" /\ Len(cur.msgstr) = 0
        THEN [ctx   |-> Put(translationContext, msgid, [cur EXCEPT !.msgstr = <<EmptyString>>]),
              threw |-> FALSE]
        ELSE [ctx |-> translationContext, threw |-> msgid # "" /\ cur.tag # "entry"]

\* body of the inner loop (lines 940-954) for one msgid; a read of .msgstr
\* on a value that has none is undefined, and .length of undefined throws
SyncMsgid(sourceContext, translationContext, msgid) ==
    LET cur == Get(translationContext, msgid)
        src == Get(sourceContext, msgid)
    IN  IF ~Truthy(cur)
        THEN [ctx   |-> Put(translationContext, msgid,
                            IF msgid # "" THEN [src EXCEPT !.msgstr = <<EmptyString>>]
                            ELSE src),
              threw |-> FALSE]
        ELSE IF msgid # ""
        THEN IF cur.tag # "entry"
             THEN [ctx |-> translationContext, threw |-> TRUE]
             ELSE IF Len(cur.msgstr) = 0
             THEN [ctx   |-> Put(translationContext, msgid,
                                 [cur EXCEPT !.msgstr = <<EmptyString>>]),
                   threw |-> FALSE]
             ELSE [ctx |-> translationContext, threw |-> FALSE]
        ELSE [ctx |-> translationContext, threw |-> FALSE]

RECURSIVE SyncContext(_, _, _)
\* the inner for-in loop from the i-th msgid of the source context on
SyncContext(sourceContext, translationContext, i) ==
    IF i > Size(sourceContext)
    THEN [ctx |-> translationContext, threw |-> FALSE]
    ELSE LET r == SyncMsgid(sourceContext, translationContext, KeyAt(sourceContext, i))
         IN  IF r.threw THEN r
             ELSE SyncContext(sourceContext, r.ctx, i + 1)

RECURSIVE SyncContexts(_, _, _)
\* the outer for-in loop from the i-th context of the source on
SyncContexts(source, target, i) ==
    IF i > Size(source.translations)
    THEN [po |-> target, threw |-> FALSE]
    ELSE LET contextKey == KeyAt(source.translations, i)
             t0 == target.translations
             t1 == IF ~Truthy(Get(t0, contextKey))
                   THEN Put(t0, contextKey, EmptyObj) ELSE t0
             r  == SyncContext(ValueAt(source.translations, i), Get(t1, contextKey), 1)
             po == [target EXCEPT !.translations = Put(t1, contextKey, r.ctx)]
         IN  IF r.threw THEN [po |-> po, threw |-> TRUE]
             ELSE SyncContexts(source, po, i + 1)

\* _syncEntriesFromSource(sourcePo, translationPo): the target as the call
\* leaves it, and whether the call threw
SyncEntriesFromSource(source, target) == SyncContexts(source, target, 1)

---------------------------------------------------------------------------
(* _findEntriesNeedingTranslation *)

\* the test of line 977 without its msgstr.length === 0 case
IsEmptyMsgstrSingleOnly(msgstr) == Len(msgstr) = 1 /\ msgstr[1] = EmptyString

\* the test of line 977 taken as true for every entry
IsEmptyMsgstrAlways(msgstr) == Len(msgstr) >= 0

\* the test of line 977
IsEmptyMsgstr(msgstr) ==
    Len(msgstr) = 0 \/ (Len(msgstr) = 1 /\ msgstr[1] = EmptyString)

RECURSIVE FindInContextEager(_, _, _, _)
\* the inner loop creating the context's backlog before the test of line 977
FindInContextEager(acc, contextKey, translationContext, i) ==
    IF i > Size(translationContext) THEN acc
    ELSE LET msgid == KeyAt(translationContext, i)
             e     == Get(translationContext, msgid)
             a1    == IF Truthy(Get(acc, contextKey)) THEN acc
                      ELSE Put(acc, contextKey, EmptyObj)
         IN  IF msgid = "" THEN FindInContextEager(acc, contextKey, translationContext, i + 1)
             ELSE IF IsEmptyMsgstr(e.msgstr)
             THEN FindInContextEager(
                      Put(a1, contextKey, Put(Get(a1, contextKey), msgid, e)),
                      contextKey, translationContext, i + 1)
             ELSE FindInContextEager(a1, contextKey, translationContext, i + 1)

RECURSIVE FindInContext(_, _, _, _)
\* the inner loop (lines 971-981) from the i-th msgid on
FindInContext(acc, contextKey, translationContext, i) ==
    IF i > Size(translationContext) THEN acc
    ELSE LET msgid == KeyAt(translationContext, i)
             e     == Get(translationContext, msgid)
         IN  IF msgid = "" THEN FindInContext(acc, contextKey, translationContext, i + 1)
             ELSE IF IsEmptyMsgstr(e.msgstr)
             THEN LET a1 == IF Truthy(Get(acc, contextKey)) THEN acc
                            ELSE Put(acc, contextKey, EmptyObj)
                      a2 == Put(a1, contextKey, Put(Get(a1, contextKey), msgid, e))
                  IN  FindInContext(a2, contextKey, translationContext, i + 1)
             ELSE FindInContext(acc, contextKey, translationContext, i + 1)

RECURSIVE FindFrom(_, _, _)
FindFrom(acc, po, i) ==
    IF i > Size(po.translations) THEN acc
    ELSE FindFrom(FindInContext(acc, KeyAt(po.translations, i), ValueAt(po.translations, i), 1),
                  po, i + 1)

\* _findEntriesNeedingTranslation(translationPo)
FindEntriesNeedingTranslation(po) == FindFrom(EmptyObj, po, 1)

---------------------------------------------------------------------------
(* SpecSync: parse two files, synchronize, synchronize again, extract *)

NoBatches == EmptyObj

ConfigLocales == <<"fr-FR", "de-DE">>

ConfigFiles == <<[source |-> "en-US.po", translation |-> "%locale%.po"]>>

\* the configuration of Spec: linguci.yml without base_path, which
\* validateConfig sets to the workspace "." (lines 257-259)
DefaultConfig == [base_path |-> ".", locales |-> ConfigLocales, files |-> ConfigFiles]

\* the engine as constructed (lines 196, 204): empty tables, nothing running
NoRun ==
    /\ config = DefaultConfig
    /\ files = EmptyObj
    /\ translationPos = EmptyObj
    /\ translationBatches = EmptyObj
    /\ languageConcurrency = 1
    /\ maxRetries = 0
    /\ translationTasks = <<>>
    /\ loopIndex = 0
    /\ taskPc = <<>>
    /\ retries = <<>>
    /\ attempts = <<>>
    /\ results = <<>>
    /\ summary = [successful |-> 0, failed |-> 0]
    /\ taskObject = <<>>
    /\ plannedPos = EmptyObj

\* no merge under test
\* no object graph (outside SpecAlias)
NoHeap ==
    /\ heap = <<>>
    /\ sourceRef = EmptyPo
    /\ targetRefs = <<>>
    /\ merged = 0

NoMerge ==
    /\ mergeContextKey = ""
    /\ mergeObject = EmptyObj

InitSync ==
    /\ NoHeap
    /\ pc = "parsing"
    /\ sourcePo = EmptyPo
    /\ translationPo = EmptyPo
    /\ prePo = EmptyPo
    /\ oncePo = EmptyPo
    /\ threw = FALSE
    /\ emptyMsgStrs = EmptyObj
    /\ batchSize = 1
    /\ schemaBatches = NoBatches
    /\ NoRun
    /\ NoMerge

\* _processSourceFile line 873: the parser stores one more entry of the source
ParseSourceEntry ==
    /\ pc = "parsing"
    /\ EntryCount(sourcePo) + EntryCount(translationPo) < MaxEntries
    /\ \E c \in ContextKeys, k \in Msgids, m \in SourceMsgstrs :
          /\ NewToken(sourcePo, c, k)
          /\ sourcePo' = ParseAdd(sourcePo, c, Entry(k, m, "src"))
    /\ UNCHANGED <<pc, translationPo, prePo, oncePo, threw, emptyMsgStrs, batchSize,
                   schemaBatches, runVars, mergeVars, heapVars>>

\* _processTranslationFile line 886: the parser stores one more entry of the target
ParseTargetEntry ==
    /\ pc = "parsing"
    /\ EntryCount(sourcePo) + EntryCount(translationPo) < MaxEntries
    /\ \E c \in ContextKeys, k \in Msgids, m \in TargetMsgstrs :
          /\ NewToken(translationPo, c, k)
          /\ translationPo' = ParseAdd(translationPo, c, Entry(k, m, "tgt"))
    /\ prePo' = translationPo'
    /\ oncePo' = translationPo'
    /\ UNCHANGED <<pc, sourcePo, threw, emptyMsgStrs, batchSize, schemaBatches,
                   runVars, mergeVars, heapVars>>

\* _processTranslationFile line 895: the first synchronization
Sync ==
    /\ pc = "parsing"
    /\ LET r == SyncEntriesFromSource(sourcePo, translationPo)
       IN  /\ translationPo' = r.po
           /\ oncePo' = r.po
           /\ threw' = r.threw
    /\ pc' = "synced"
    /\ UNCHANGED <<sourcePo, prePo, emptyMsgStrs, batchSize, schemaBatches, runVars, mergeVars, heapVars>>

\* a second synchronization of the same source into the same target
SyncAgain ==
    /\ pc = "synced"
    /\ LET r == SyncEntriesFromSource(sourcePo, translationPo)
       IN  /\ translationPo' = r.po
           /\ threw' = r.threw
    /\ pc' = "resynced"
    /\ UNCHANGED <<sourcePo, prePo, oncePo, emptyMsgStrs, batchSize, schemaBatches,
                   runVars, mergeVars, heapVars>>

\* createTranslationBatches line 377, reached when synchronization returned
Find ==
    /\ pc \in {"synced", "resynced"}
    /\ ~threw
    /\ emptyMsgStrs' = FindEntriesNeedingTranslation(translationPo)
    /\ pc' = "found"
    /\ UNCHANGED <<sourcePo, translationPo, prePo, oncePo, threw, batchSize,
                   schemaBatches, runVars, mergeVars, heapVars>>

NextSync == ParseSourceEntry \/ ParseTargetEntry \/ Sync \/ SyncAgain \/ Find

SpecSync == InitSync /\ [][NextSync]_vars

---------------------------------------------------------------------------
(* _createSchemaBatches *)

\* String(n) of a property key that is a small number
NumberKey(n) == Digits[n + 1]

ZString == [tag |-> "zstring"]

\* arr.slice(start, end) widened by one element at its end
SliceInclusive(arr, start, end) ==
    SubSeq(arr, start + 1, IF end + 1 < Len(arr) THEN end + 1 ELSE Len(arr))

\* arr.slice(start, end), 0 <= start <= end
Slice(arr, start, end) ==
    SubSeq(arr, start + 1, IF end < Len(arr) THEN end ELSE Len(arr))

\* the loop update advancing by one key too many
NextBatchStartSkip(i, size) == i + size + 1

\* the loop update i += batchSize of line 1005
NextBatchStart(i, size) == i + size

RECURSIVE BatchSchemaObj(_, _, _)
\* lines 1008-1013: batchSchemaObj[msgid] = z.string() from the j-th msgid on
BatchSchemaObj(acc, batchMsgids, j) ==
    IF j > Len(batchMsgids) THEN acc
    ELSE BatchSchemaObj(Put(acc, batchMsgids[j], ZString), batchMsgids, j + 1)

\* z.object(batchSchemaObj)
ZObject(batchSchemaObj) == [tag |-> "zobject", shape |-> batchSchemaObj]

RECURSIVE BatchLoop(_, _, _, _, _)
\* the for loop of lines 1002-1017
BatchLoop(contextBatches, msgids, size, i, batchNumber) ==
    IF ~(i < Len(msgids)) THEN contextBatches
    ELSE LET batchMsgids == Slice(msgids, i, i + size)
             schema == ZObject(BatchSchemaObj(EmptyObj, batchMsgids, 1))
         IN  BatchLoop(Put(contextBatches, NumberKey(batchNumber), schema),
                       msgids, size, NextBatchStart(i, size), batchNumber + 1)

RECURSIVE BatchContexts(_, _, _, _)
\* the for-in loop of lines 997-1018 from the c-th context on
BatchContexts(acc, backlog, size, c) ==
    IF c > Size(backlog) THEN acc
    ELSE LET msgids == OwnKeys(ValueAt(backlog, c))
         IN  BatchContexts(
                 Put(acc, KeyAt(backlog, c), BatchLoop(EmptyObj, msgids, size, 0, 0)),
                 backlog, size, c + 1)

\* _createSchemaBatches(emptyMsgStrs, batchSize)
CreateSchemaBatches(backlog, size) == BatchContexts(EmptyObj, backlog, size, 1)

---------------------------------------------------------------------------
(* SpecBatch: a backlog as backlog extraction builds it, then batch planning *)

BacklogMsgids == {"hello", "bye", "1", "2"}

RECURSIVE Backlogs(_)
\* the backlogs of at most n entries
Backlogs(n) ==
    IF n = 0 THEN {EmptyObj}
    ELSE LET prev == Backlogs(n - 1)
         IN  prev \cup UNION { UNION {
                 { Put(IF HasOwn(b, c) THEN b ELSE Put(b, c, EmptyObj), c,
                       Put(IF HasOwn(b, c) THEN Get(b, c) ELSE EmptyObj, k,
                           Entry(k, <<EmptyString>>, "tgt")))
                 : k \in {x \in BacklogMsgids : ~HasOwn(b, c) \/ ~HasOwn(Get(b, c), x)} }
                 : c \in ContextKeys } : b \in prev }

InitBatch ==
    /\ NoHeap
    /\ pc = "found"
    /\ emptyMsgStrs \in UNION { Backlogs(MaxBacklog) }
    /\ sourcePo = EmptyPo
    /\ translationPo = EmptyPo
    /\ prePo = EmptyPo
    /\ oncePo = EmptyPo
    /\ threw = FALSE
    /\ batchSize = 1
    /\ schemaBatches = NoBatches
    /\ NoRun
    /\ NoMerge

\* createTranslationBatches lines 380-383
CreateBatches ==
    /\ pc = "found"
    /\ \E b \in 1..MaxBatchSize :
          /\ batchSize' = b
          /\ schemaBatches' = CreateSchemaBatches(emptyMsgStrs, b)
    /\ pc' = "batched"
    /\ UNCHANGED <<sourcePo, translationPo, prePo, oncePo, threw, emptyMsgStrs, runVars, mergeVars, heapVars>>

NextBatch == CreateBatches

SpecBatch == InitBatch /\ [][NextBatch]_vars

---------------------------------------------------------------------------
(* Strings of the configuration: paths and locale codes are TLA+ strings     *)
(* (they are property keys); Chars gives the characters of the ones used.   *)

LocalePlaceholder == "%locale%"

KnownStrings ==
    {"fr-FR", "de-DE", "en-US", "ar", "sub", "%locale%", "%locale%.po",
     "en-US.po", "fr-FR.po", "de-DE.po",
     "share/%locale%.po", "share/en-US.po", "share/ar.po", "share/fr-FR.po",
     "sub/en-US.po", "sub/fr-FR.po", "sub/de-DE.po"}

CharsPo == <<".", "p", "o">>

CharsShare == <<"s", "h", "a", "r", "e", "/">>

CharsSub == <<"s", "u", "b">>

Chars(str) ==
    CASE str = "fr-FR" -> <<"f", "r", "-", "F", "R">>
      [] str = "de-DE" -> <<"d", "e", "-", "D", "E">>
      [] str = "en-US" -> <<"e", "n", "-", "U", "S">>
      [] str = "ar" -> <<"a", "r">>
      [] str = "sub" -> CharsSub
      [] str = "%locale%" -> <<"%", "l", "o", "c", "a", "l", "e", "%">>
      [] str = "%locale%.po" -> <<"%", "l", "o", "c", "a", "l", "e", "%">> \o CharsPo
      [] str = "en-US.po" -> <<"e", "n", "-", "U", "S">> \o CharsPo
      [] str = "fr-FR.po" -> <<"f", "r", "-", "F", "R">> \o CharsPo
      [] str = "de-DE.po" -> <<"d", "e", "-", "D", "E">> \o CharsPo
      [] str = "share/%locale%.po" ->
             CharsShare \o <<"%", "l", "o", "c", "a", "l", "e", "%">> \o CharsPo
      [] str = "share/en-US.po" -> CharsShare \o <<"e", "n", "-", "U", "S">> \o CharsPo
      [] str = "share/ar.po" -> CharsShare \o <<"a", "r">> \o CharsPo
      [] str = "share/fr-FR.po" -> CharsShare \o <<"f", "r", "-", "F", "R">> \o CharsPo
      [] str = "sub/en-US.po" ->
             CharsSub \o <<"/", "e", "n", "-", "U", "S">> \o CharsPo
      [] str = "sub/fr-FR.po" ->
             CharsSub \o <<"/", "f", "r", "-", "F", "R">> \o CharsPo
      [] str = "sub/de-DE.po" ->
             CharsSub \o <<"/", "d", "e", "-", "D", "E">> \o CharsPo

FromChars(cs) == CHOOSE str \in KnownStrings : Chars(str) = cs

\* offsets at which the characters sub occur in the characters hay
Occurrences(hay, sub) ==
    {off \in 0..(Len(hay) - Len(sub)) : SubSeq(hay, off + 1, off + Len(sub)) = sub}

\* str.includes(sub)
Includes(str, sub) == Occurrences(Chars(str), Chars(sub)) # {}

Min(set) == CHOOSE x \in set : \A y \in set : x <= y

\* str.replace(sub, by): the first occurrence replaced
Replace(str, sub, by) ==
    LET h == Chars(str)
        offs == Occurrences(h, Chars(sub))
    IN  IF offs = {} THEN str
        ELSE LET off == Min(offs)
             IN  FromChars(SubSeq(h, 1, off) \o Chars(by)
                           \o SubSeq(h, off + Len(Chars(sub)) + 1, Len(h)))

\* path.join(base, p) for a relative path p without "." or ".." segments
PathJoin(base, p) ==
    IF base = "." THEN p ELSE FromChars(Chars(base) \o <<"/">> \o Chars(p))

\* _getTranslationPath(translationPathTemplate, locale)
GetTranslationPath(template, locale) ==
    PathJoin(config.base_path,
             IF Includes(template, LocalePlaceholder)
             THEN Replace(template, LocalePlaceholder, locale)
             ELSE template)

Null == [tag |-> "null"]

RECURSIVE FirstLocaleIn(_, _)
\* the first configured locale, from the n-th on, that str includes
FirstLocaleIn(str, n) ==
    IF n > Len(config.locales) THEN Null
    ELSE IF Includes(str, config.locales[n])
    THEN [tag |-> "string", str |-> config.locales[n]]
    ELSE FirstLocaleIn(str, n + 1)

\* _extractLocaleFromPath(translationPath)
ExtractLocaleFromPath(translationPath) == FirstLocaleIn(translationPath, 1)

---------------------------------------------------------------------------
(* validateConfig *)

\* the keys of languageNames among the locale codes used here
LanguageNames == {"ar", "de-DE", "en-US", "fr-FR"}

\* lines 296-325 for one file entry: the source and, for a template with the
\* placeholder, every locale's file are looked up under base_path; a template
\* without it is looked up as written, relative to the working directory
FileExists(file, disk) ==
    /\ HasOwn(disk, PathJoin(config.base_path, file.source))
    /\ IF Includes(file.translation, LocalePlaceholder)
       THEN \A n \in 1..Len(config.locales) :
               HasOwn(disk, PathJoin(config.base_path,
                                     Replace(file.translation, LocalePlaceholder,
                                             config.locales[n])))
       ELSE HasOwn(disk, file.translation)

\* validateConfig returns (lines 261-326); the llm section is a valid one
ConfigValid(disk) ==
    /\ Len(config.locales) > 0
    /\ \A n \in 1..Len(config.locales) : config.locales[n] \in LanguageNames
    /\ Len(config.files) > 0
    /\ \A n \in 1..Len(config.files) : FileExists(config.files[n], disk)

---------------------------------------------------------------------------
(* createTranslationBatches *)

\* pos[sourcePath] = {} unless it is there (lines 908-910, 913-915)
EnsureSource(table, sourcePath) ==
    IF ~Truthy(Get(table, sourcePath)) THEN Put(table, sourcePath, EmptyObj) ELSE table

\* lines 916-918: translationBatches[sourcePath][translationPath] = {} unless there
EnsureBatches(batches, sourcePath, translationPath) ==
    LET b1 == EnsureSource(batches, sourcePath)
    IN  IF ~Truthy(Get(Get(b1, sourcePath), translationPath))
        THEN Put(b1, sourcePath, Put(Get(b1, sourcePath), translationPath, EmptyObj))
        ELSE b1

\* table[sourcePath][translationPath] = value (lines 892, 386)
Store(table, sourcePath, translationPath, value) ==
    Put(table, sourcePath, Put(Get(table, sourcePath), translationPath, value))

\* lines 354-387 for one locale; st = [pos, batches, threw].  The catalog
\* stored at line 892 is the object synchronization then mutates in place.
PlanLocale(st, file, source, locale, size, disk) ==
    LET sourcePath == PathJoin(config.base_path, file.source)
        sourceLocale == FirstLocaleIn(file.source, 1)
        translationPath == GetTranslationPath(file.translation, locale)
    IN  IF sourceLocale.tag = "string" /\ sourceLocale.str = locale THEN st
        ELSE IF ~HasOwn(disk, translationPath) THEN st
        ELSE LET r == SyncEntriesFromSource(source, Get(disk, translationPath))
                 pos1 == Store(EnsureSource(st.pos, sourcePath), sourcePath,
                               translationPath, r.po)
                 b0 == EnsureBatches(st.batches, sourcePath, translationPath)
             IN  IF r.threw
                 THEN [pos |-> pos1, batches |-> b0, threw |-> TRUE]
                 ELSE [pos     |-> pos1,
                       batches |-> Store(b0, sourcePath, translationPath,
                                      CreateSchemaBatches(
                                          FindEntriesNeedingTranslation(r.po), size)),
                       threw   |-> FALSE]

RECURSIVE PlanLocales(_, _, _, _, _, _)
\* the loop of line 354 from the n-th locale on
PlanLocales(st, file, source, n, size, disk) ==
    IF n > Len(config.locales) \/ st.threw THEN st
    ELSE PlanLocales(PlanLocale(st, file, source, config.locales[n], size, disk),
                     file, source, n + 1, size, disk)

\* lines 346-388 for one file entry; reading a source file that does not
\* exist throws (line 872)
PlanFile(st, file, size, disk) ==
    LET sourcePath == PathJoin(config.base_path, file.source)
    IN  IF ~HasOwn(disk, sourcePath) THEN [st EXCEPT !.threw = TRUE]
        ELSE PlanLocales(st, file, Get(disk, sourcePath), 1, size, disk)

RECURSIVE PlanFilesFrom(_, _, _, _)
\* the loop of line 345 from the n-th file entry on
PlanFilesFrom(st, n, size, disk) ==
    IF n > Len(config.files) \/ st.threw THEN st
    ELSE PlanFilesFrom(PlanFile(st, config.files[n], size, disk), n + 1, size, disk)

\* createTranslationBatches({batchSize})
PlanFiles(size, disk) ==
    PlanFilesFrom([pos |-> EmptyObj, batches |-> EmptyObj, threw |-> FALSE],
                  1, size, disk)

---------------------------------------------------------------------------
(* executeTranslations: the task queue *)

RECURSIVE TasksOfContextTwice(_, _, _, _, _)
\* every batch pushed twice
TasksOfContextTwice(sourcePath, translationPath, contextKey, contextBatches, n) ==
    IF n > Size(contextBatches) THEN <<>>
    ELSE LET task == [sourcePath      |-> sourcePath,
                      translationPath |-> translationPath,
                      contextKey      |-> contextKey,
                      batchNumber     |-> KeyAt(contextBatches, n),
                      schema          |-> ValueAt(contextBatches, n),
                      locale          |-> ExtractLocaleFromPath(translationPath),
                      translationPo   |-> <<sourcePath, translationPath>>,
                      messageCount    |-> Size(ValueAt(contextBatches, n).shape)]
         IN  <<task, task>>
             \o TasksOfContextTwice(sourcePath, translationPath, contextKey,
                                    contextBatches, n + 1)

RECURSIVE TasksOfContextDescending(_, _, _, _, _)
\* the batches of a context pushed from the last to the first
TasksOfContextDescending(sourcePath, translationPath, contextKey, contextBatches, n) ==
    IF n > Size(contextBatches) THEN <<>>
    ELSE TasksOfContextDescending(sourcePath, translationPath, contextKey,
                                  contextBatches, n + 1)
         \o <<[sourcePath      |-> sourcePath,
                translationPath |-> translationPath,
                contextKey      |-> contextKey,
                batchNumber     |-> KeyAt(contextBatches, n),
                schema          |-> ValueAt(contextBatches, n),
                locale          |-> ExtractLocaleFromPath(translationPath),
                translationPo   |-> <<sourcePath, translationPath>>,
                messageCount    |-> Size(ValueAt(contextBatches, n).shape)]>>

RECURSIVE TasksOfContextFirstCatalog(_, _, _, _, _)
\* every task given the first catalog stored for its source
TasksOfContextFirstCatalog(sourcePath, translationPath, contextKey, contextBatches, n) ==
    IF n > Size(contextBatches) THEN <<>>
    ELSE <<[sourcePath      |-> sourcePath,
            translationPath |-> translationPath,
            contextKey      |-> contextKey,
            batchNumber     |-> KeyAt(contextBatches, n),
            schema          |-> ValueAt(contextBatches, n),
            locale          |-> ExtractLocaleFromPath(translationPath),
            translationPo   |-> <<sourcePath, KeyAt(Get(translationPos, sourcePath), 1)>>,
            messageCount    |-> Size(ValueAt(contextBatches, n).shape)]>>
         \o TasksOfContextFirstCatalog(sourcePath, translationPath, contextKey,
                                       contextBatches, n + 1)

RECURSIVE TasksOfContext(_, _, _, _, _)
\* lines 452-472 from the n-th batch of a context on.  The task's
\* translationPo is the catalog object line 436 read from this.translationPos,
\* held by reference: the model names the object by the place it is stored at.
TasksOfContext(sourcePath, translationPath, contextKey, contextBatches, n) ==
    IF n > Size(contextBatches) THEN <<>>
    ELSE <<[sourcePath      |-> sourcePath,
            translationPath |-> translationPath,
            contextKey      |-> contextKey,
            batchNumber     |-> KeyAt(contextBatches, n),
            schema          |-> ValueAt(contextBatches, n),
            locale          |-> ExtractLocaleFromPath(translationPath),
            translationPo   |-> <<sourcePath, translationPath>>,
            messageCount    |-> Size(ValueAt(contextBatches, n).shape)]>>
         \o TasksOfContext(sourcePath, translationPath, contextKey, contextBatches, n + 1)

RECURSIVE TasksOfPath(_, _, _, _)
\* lines 439-473 from the n-th context of a translation path on
TasksOfPath(sourcePath, translationPath, pathBatches, n) ==
    IF n > Size(pathBatches) THEN <<>>
    ELSE TasksOfContext(sourcePath, translationPath, KeyAt(pathBatches, n),
                        ValueAt(pathBatches, n), 1)
         \o TasksOfPath(sourcePath, translationPath, pathBatches, n + 1)

RECURSIVE TasksOfSource(_, _, _)
\* lines 425-474 from the n-th translation path of a source on
TasksOfSource(sourcePath, sourceBatches, n) ==
    IF n > Size(sourceBatches) THEN <<>>
    ELSE TasksOfPath(sourcePath, KeyAt(sourceBatches, n), ValueAt(sourceBatches, n), 1)
         \o TasksOfSource(sourcePath, sourceBatches, n + 1)

RECURSIVE TasksFrom(_, _)
\* lines 422-475 from the n-th source path on
TasksFrom(batches, n) ==
    IF n > Size(batches) THEN <<>>
    ELSE TasksOfSource(KeyAt(batches, n), ValueAt(batches, n), 1)
         \o TasksFrom(batches, n + 1)

\* the queue built by lines 419-475
BuildTasks(batches) == TasksFrom(batches, 1)

---------------------------------------------------------------------------
(* _updateTranslationPoWithResults *)

Whitespace == {" ", "\t", "\n"}

RECURSIVE TrimStart(_)
TrimStart(str) ==
    IF Len(str) > 0 /\ str[1] \in Whitespace THEN TrimStart(Tail(str)) ELSE str

RECURSIVE TrimEnd(_)
TrimEnd(str) ==
    IF Len(str) > 0 /\ str[Len(str)] \in Whitespace
    THEN TrimEnd(SubSeq(str, 1, Len(str) - 1)) ELSE str

\* str.trim()
Trim(str) == TrimEnd(TrimStart(str))

\* the assignment without trimming
TranslationVerbatim(value) == value

\* line 841: object[msgid] ? object[msgid].trim() : ""
Translation(value) == IF value # EmptyString THEN Trim(value) ELSE EmptyString

\* lines 839-845 for one msgid of the response.  context[msgid] is an entry of
\* the catalog, or a value found on the prototype chain: a function takes the
\* new property msgstr (outside the catalog), a primitive string cannot, and
\* the assignment of line 844 throws a TypeError (the module is strict code).
UpdateMsgid(context, object, msgid) ==
    LET cur == Get(context, msgid)
    IN  IF ~Truthy(cur) THEN [context |-> context, threw |-> FALSE]
        ELSE IF cur.tag = "entry"
        THEN [context |-> Put(context, msgid,
                              [cur EXCEPT !.msgstr = <<Translation(Get(object, msgid))>>]),
              threw |-> FALSE]
        ELSE IF cur.tag = "primitive" THEN [context |-> context, threw |-> TRUE]
        ELSE [context |-> context, threw |-> FALSE]

RECURSIVE UpdateFromContextKeys(_, _, _)
\* the loop run over the keys of the context instead of those of the response
UpdateFromContextKeys(context, object, n) ==
    IF n > Size(context) THEN [context |-> context, threw |-> FALSE]
    ELSE LET k   == KeyAt(context, n)
             cur == ValueAt(context, n)
             v   == IF HasOwn(object, k) THEN Get(object, k) ELSE EmptyString
         IN  UpdateFromContextKeys(
                 Put(context, k, [cur EXCEPT !.msgstr = <<Translation(v)>>]),
                 object, n + 1)

RECURSIVE UpdateFrom(_, _, _)
\* the for-in loop of line 838 from the n-th key of the response on
UpdateFrom(context, object, n) ==
    IF n > Size(object) THEN [context |-> context, threw |-> FALSE]
    ELSE LET st == UpdateMsgid(context, object, KeyAt(object, n))
         IN  IF st.threw THEN st ELSE UpdateFrom(st.context, object, n + 1)

RECURSIVE UpdateEveryContext(_, _, _)
UpdateEveryContext(po, object, n) ==
    IF n > Size(po.translations) THEN po
    ELSE UpdateEveryContext(
             [po EXCEPT !.translations =
                 Put(po.translations, KeyAt(po.translations, n),
                     UpdateFrom(ValueAt(po.translations, n), object, 1).context)],
             object, n + 1)

\* the merge applied to every context of the catalog
UpdateTranslationPoWithResultsEveryContext(po, contextKey, object) ==
    [po |-> UpdateEveryContext(po, object, 1), threw |-> FALSE]

\* _updateTranslationPoWithResults(translationPo, contextKey, object): the
\* catalog as mutated, and whether the call threw.  A context found on the
\* prototype chain is no part of the catalog.
UpdateTranslationPoWithResults(po, contextKey, object) ==
    LET context == Get(po.translations, contextKey)
    IN  IF ~Truthy(context) THEN [po |-> po, threw |-> FALSE]
        ELSE LET st == UpdateFrom(context, object, 1)
             IN  [po    |-> IF HasOwn(po.translations, contextKey)
                            THEN [po EXCEPT !.translations =
                                     Put(po.translations, contextKey, st.context)]
                            ELSE po,
                  threw |-> st.threw]

---------------------------------------------------------------------------
(* executeTranslations: processTasks and executeTask *)

\* indices (from 1) of tasks.slice(start, start + width + 1) in a queue of n
ChunkOfWide(n, start, width) == {t \in 1..n : start < t /\ t <= start + width + 1}

\* indices (from 1) of the tasks of tasks.slice(start, start + width), line 580,
\* in a queue of n tasks
ChunkOf(n, start, width) == {t \in 1..n : start < t /\ t <= start + width}

Settled(state) == state \in {"fulfilled", "rejected"}

\* the wait of line 592 ended by the first task of the chunk to settle
ChunkSettledAny(tp, start) ==
    \E t \in ChunkOf(Len(tp), start, languageConcurrency) : Settled(tp[t])

\* the wait of line 592 given up on the last task of the chunk still running
ChunkSettledButOne(tp, start) ==
    Cardinality({t \in ChunkOf(Len(tp), start, languageConcurrency) : ~Settled(tp[t])}) <= 1

\* Promise.allSettled(chunkPromises) of line 592 has resolved
ChunkSettled(tp, start) ==
    \A t \in ChunkOf(Len(tp), start, languageConcurrency) : Settled(tp[t])

\* the settled outcome of task t: the value returned at line 571 or the
\* rejection of line 551
Outcome(tp, t) ==
    IF tp[t] = "fulfilled"
    THEN [status |-> "fulfilled", success |-> TRUE,
          sourcePath |-> translationTasks[t].sourcePath,
          translationPath |-> translationTasks[t].translationPath]
    ELSE [status |-> "rejected", success |-> FALSE,
          sourcePath |-> translationTasks[t].sourcePath,
          translationPath |-> translationTasks[t].translationPath]

\* chunkResults with the rejected outcomes dropped
ChunkResultsFulfilled(tp, start) ==
    LET first == start + 1
        last  == IF start + languageConcurrency < Len(translationTasks)
                 THEN start + languageConcurrency ELSE Len(translationTasks)
        all   == [n \in 1..(last - first + 1) |-> Outcome(tp, first + n - 1)]
    IN  SelectSeq(all, LAMBDA r : r.status = "fulfilled")

\* chunkResults: the outcomes of a chunk in task order
ChunkResults(tp, start) ==
    LET first == start + 1
        last  == IF start + languageConcurrency < Len(translationTasks)
                 THEN start + languageConcurrency ELSE Len(translationTasks)
    IN  [n \in 1..(last - first + 1) |-> Outcome(tp, first + n - 1)]

\* lines 611-614
Summary(res) ==
    LET successful == Cardinality({n \in 1..Len(res) :
                          res[n].status = "fulfilled" /\ res[n].success})
    IN  [successful |-> successful, failed |-> Len(res) - successful]

\* Launch starting again every task before the window too
LaunchFromStart(tp, start) ==
    [t \in 1..Len(tp) |->
        IF t <= start + languageConcurrency THEN "request" ELSE tp[t]]

\* line 590: every task of the chunk runs up to its first generateObject call
Launch(tp, start) ==
    [t \in 1..Len(tp) |->
        IF t \in ChunkOf(Len(tp), start, languageConcurrency) THEN "request" ELSE tp[t]]

LaunchAttempts(att, start) ==
    [t \in 1..Len(att) |->
        IF t \in ChunkOf(Len(att), start, languageConcurrency) THEN att[t] + 1 ELSE att[t]]

\* a rejected task ends the loop of line 579: later windows are not launched
AfterSettleBreak(tp) ==
    IF ChunkSettled(tp, loopIndex)
    THEN LET next == loopIndex + languageConcurrency
             res  == results \o ChunkResults(tp, loopIndex)
             stop == \E t \in ChunkOf(Len(tp), loopIndex, languageConcurrency) :
                        tp[t] = "rejected"
         IN  /\ results' = res
             /\ loopIndex' = next
             /\ IF next < Len(translationTasks) /\ ~stop
                THEN /\ taskPc' = Launch(tp, next)
                     /\ attempts' = LaunchAttempts(attempts, next)
                     /\ UNCHANGED <<pc, summary>>
                ELSE /\ taskPc' = tp
                     /\ pc' = "done"
                     /\ summary' = Summary(res)
                     /\ UNCHANGED attempts
    ELSE /\ taskPc' = tp
         /\ UNCHANGED <<pc, results, loopIndex, attempts, summary>>

\* the wait of line 592 as Promise.all: a rejected task rejects the call
AfterSettleAll(tp) ==
    IF \E t \in ChunkOf(Len(tp), loopIndex, languageConcurrency) : tp[t] = "rejected"
    THEN /\ taskPc' = tp
         /\ pc' = "failed"
         /\ UNCHANGED <<results, loopIndex, attempts, summary>>
    ELSE IF ChunkSettled(tp, loopIndex)
    THEN LET next == loopIndex + languageConcurrency
             res  == results \o ChunkResults(tp, loopIndex)
         IN  /\ results' = res
             /\ loopIndex' = next
             /\ IF next < Len(translationTasks)
                THEN /\ taskPc' = Launch(tp, next)
                     /\ attempts' = LaunchAttempts(attempts, next)
                     /\ UNCHANGED <<pc, summary>>
                ELSE /\ taskPc' = tp
                     /\ pc' = "done"
                     /\ summary' = Summary(res)
                     /\ UNCHANGED attempts
    ELSE /\ taskPc' = tp
         /\ UNCHANGED <<pc, results, loopIndex, attempts, summary>>

\* What follows a task's settling in the same turn of the event loop: once the
\* chunk has settled, lines 593-601 push its results and launch the next chunk,
\* or lines 603-628 end the run.  tp is taskPc with the settled task updated.
AfterSettle(tp) ==
    IF ChunkSettled(tp, loopIndex)
    THEN LET next == loopIndex + languageConcurrency
             res  == results \o ChunkResults(tp, loopIndex)
         IN  /\ results' = res
             /\ loopIndex' = next
             /\ IF next < Len(translationTasks)
                THEN /\ taskPc' = Launch(tp, next)
                     /\ attempts' = LaunchAttempts(attempts, next)
                     /\ UNCHANGED <<pc, summary>>
                ELSE /\ taskPc' = tp
                     /\ pc' = "done"
                     /\ summary' = Summary(res)
                     /\ UNCHANGED attempts
    ELSE /\ taskPc' = tp
         /\ UNCHANGED <<pc, results, loopIndex, attempts, summary>>

StrX == <<"x">>

StrPadded == <<" ", "x", " ">>

\* the strings a response of the run carries: one to trim, and the empty one
ProviderStrings == {StrPadded, EmptyString}

RECURSIVE ObjectOf(_, _, _)
\* the object with the keys ks[n..], each with the given value
ObjectOf(ks, value, n) ==
    IF n > Len(ks) THEN EmptyObj
    ELSE Put(ObjectOf(ks, value, n + 1), ks[n], value)

\* result.object of a generateObject call that returns: the schema's keys
\* with a translated string each, or all but the last of them
ProviderObjects(schema) ==
    LET ks == OwnKeys(schema.shape)
    IN  {ObjectOf(ks, v, 1) : v \in ProviderStrings}
        \cup {ObjectOf(SubSeq(ks, 1, Len(ks) - 1), StrPadded, 1)}

---------------------------------------------------------------------------
(* Spec: createTranslationBatches, then executeTranslations *)

\* largest batchSize, languageConcurrency and maxRetries of a run
MaxRunBatchSize == 2

MaxConcurrency == 2

MaxRetries == 1

RECURSIVE PoOf(_)
\* the catalog a file with the given <<msgctxt, msgid, msgstr>> entries parses to
PoOf(tokens) ==
    IF tokens = <<>> THEN EmptyPo
    ELSE ParseAdd(PoOf(SubSeq(tokens, 1, Len(tokens) - 1)),
                  tokens[Len(tokens)][1],
                  Entry(tokens[Len(tokens)][2], tokens[Len(tokens)][3], "file"))

RunSources ==
    { PoOf(<< <<"", "", <<StrS>> >>, <<"", "hello", <<EmptyString>> >>,
              <<"", "bye", <<EmptyString>> >> >>),
      PoOf(<< <<"menu", "1", <<EmptyString>> >> >>),
      PoOf(<< <<"", "constructor", <<EmptyString>> >> >>) }

\* target files: an empty one, one with a translated and an obsolete pending
\* entry, one fully translated
TargetEmpty == EmptyPo

TargetPartial == PoOf(<< <<"", "hello", <<StrT>> >>, <<"", "old", <<>> >> >>)

TargetDone == PoOf(<< <<"", "hello", <<StrT>> >>, <<"menu", "1", <<StrT>> >> >>)

\* the target files on disk: both locales' files, or fr-FR.po alone
RunDisks ==
    { Put(Put(EmptyObj, "fr-FR.po", TargetPartial), "de-DE.po", TargetEmpty),
      Put(Put(EmptyObj, "fr-FR.po", TargetPartial), "de-DE.po", TargetDone),
      Put(Put(EmptyObj, "fr-FR.po", TargetDone), "de-DE.po", TargetDone),
      Put(EmptyObj, "fr-FR.po", TargetPartial) }

Init ==
    /\ NoHeap
    /\ pc = "configured"
    /\ config = DefaultConfig
    /\ sourcePo \in RunSources
    /\ \E disk \in RunDisks : files = Put(disk, "en-US.po", sourcePo)
    /\ batchSize \in 1..MaxRunBatchSize
    /\ languageConcurrency \in 1..MaxConcurrency
    /\ maxRetries \in 0..MaxRetries
    /\ translationPos = EmptyObj
    /\ translationBatches = EmptyObj
    /\ translationTasks = <<>>
    /\ loopIndex = 0
    /\ taskPc = <<>>
    /\ retries = <<>>
    /\ attempts = <<>>
    /\ results = <<>>
    /\ summary = [successful |-> 0, failed |-> 0]
    /\ taskObject = <<>>
    /\ plannedPos = EmptyObj
    /\ NoMerge
    /\ translationPo = EmptyPo
    /\ prePo = EmptyPo
    /\ oncePo = EmptyPo
    /\ threw = FALSE
    /\ emptyMsgStrs = EmptyObj
    /\ schemaBatches = NoBatches

\* createTranslationBatches({batchSize}); an exception of synchronization
\* ends the run (the caller's catch)
CreateTranslationBatches ==
    /\ pc = "configured"
    /\ LET st == PlanFiles(batchSize, files)
       IN  /\ translationPos' = st.pos
           /\ plannedPos' = st.pos
           /\ translationBatches' = st.batches
           /\ threw' = st.threw
           /\ pc' = IF st.threw THEN "failed" ELSE "planned"
    /\ UNCHANGED <<sourcePo, translationPo, prePo, oncePo, emptyMsgStrs, batchSize,
                   schemaBatches, config, files, languageConcurrency, maxRetries,
                   translationTasks, loopIndex, taskPc, retries, attempts, results,
                   summary, taskObject, mergeVars, heapVars>>

\* executeTranslations up to its first suspension: the queue is built and
\* the first chunk launched, or, with no task, the run ends at once
ExecuteTranslations ==
    /\ pc = "planned"
    /\ LET tasks == BuildTasks(translationBatches)
           idle  == [t \in 1..Len(tasks) |-> "idle"]
           zero  == [t \in 1..Len(tasks) |-> 0]
       IN  /\ translationTasks' = tasks
           /\ retries' = zero
           /\ taskObject' = [t \in 1..Len(tasks) |-> Undefined]
           /\ loopIndex' = 0
           /\ results' = <<>>
           /\ IF Len(tasks) > 0
              THEN /\ taskPc' = Launch(idle, 0)
                   /\ attempts' = LaunchAttempts(zero, 0)
                   /\ pc' = "executing"
                   /\ UNCHANGED summary
              ELSE /\ taskPc' = idle
                   /\ attempts' = zero
                   /\ pc' = "done"
                   /\ summary' = Summary(<<>>)
    /\ UNCHANGED <<catalogVars, plannedPos, config, files, translationPos, translationBatches,
                   languageConcurrency, maxRetries, mergeVars, heapVars>>

\* a retry is left only while fewer than maxRetries requests have failed
MayRetryBelow(r) == r < maxRetries

\* line 539, with r the incremented retries: another request follows
MayRetry(r) == r <= maxRetries

\* a failed request empties the task's catalog
ProviderThrowsClears(t) ==
    /\ pc = "executing"
    /\ taskPc[t] = "request"
    /\ retries' = [retries EXCEPT ![t] = @ + 1]
    /\ translationPos' = Store(translationPos, translationTasks[t].translationPo[1],
                               translationTasks[t].translationPo[2], EmptyPo)
    /\ IF MayRetry(retries[t] + 1)
       THEN /\ taskPc' = [taskPc EXCEPT ![t] = "delay"]
            /\ UNCHANGED <<pc, results, loopIndex, attempts, summary>>
       ELSE AfterSettle([taskPc EXCEPT ![t] = "rejected"])
    /\ UNCHANGED <<catalogVars, plannedPos, config, files, translationBatches,
                   languageConcurrency, maxRetries, translationTasks, taskObject,
                   mergeVars, heapVars>>

\* the pause taken after every failed request, the last one included
ProviderThrowsAlwaysPauses(t) ==
    /\ pc = "executing"
    /\ taskPc[t] = "request"
    /\ retries' = [retries EXCEPT ![t] = @ + 1]
    /\ taskPc' = [taskPc EXCEPT ![t] = "delay"]
    /\ UNCHANGED <<pc, results, loopIndex, attempts, summary>>
    /\ UNCHANGED <<catalogVars, plannedPos, config, files, translationPos,
                   translationBatches, languageConcurrency, maxRetries,
                   translationTasks, taskObject, mergeVars, heapVars>>

\* generateObject of task t throws (lines 531-553): a retry pause, or, with
\* the retries exhausted, the task rejects
ProviderThrows(t) ==
    /\ pc = "executing"
    /\ taskPc[t] = "request"
    /\ retries' = [retries EXCEPT ![t] = @ + 1]
    /\ IF MayRetry(retries[t] + 1)
       THEN /\ taskPc' = [taskPc EXCEPT ![t] = "delay"]
            /\ UNCHANGED <<pc, results, loopIndex, attempts, summary>>
       ELSE AfterSettle([taskPc EXCEPT ![t] = "rejected"])
    /\ UNCHANGED <<catalogVars, plannedPos, config, files, translationPos, translationBatches,
                   languageConcurrency, maxRetries, translationTasks, taskObject,
                   mergeVars, heapVars>>

\* a response that lacks a key of the schema counted as a failed request
ProviderReturnsComplete(t) ==
    /\ pc = "executing"
    /\ taskPc[t] = "request"
    /\ \E object \in ProviderObjects(translationTasks[t].schema) :
          LET task == translationTasks[t]
              po   == Get(Get(translationPos, task.translationPo[1]),
                          task.translationPo[2])
              st   == UpdateTranslationPoWithResults(po, task.contextKey, object)
          IN  /\ taskObject' = [taskObject EXCEPT ![t] = object]
              /\ IF Size(object) = Size(task.schema.shape)
                 THEN /\ translationPos' = Store(translationPos, task.translationPo[1],
                                                 task.translationPo[2], st.po)
                      /\ AfterSettle([taskPc EXCEPT ![t] = "fulfilled"])
                      /\ UNCHANGED retries
                 ELSE /\ retries' = [retries EXCEPT ![t] = @ + 1]
                      /\ UNCHANGED translationPos
                      /\ IF MayRetry(retries[t] + 1)
                         THEN /\ taskPc' = [taskPc EXCEPT ![t] = "delay"]
                              /\ UNCHANGED <<pc, results, loopIndex, attempts, summary>>
                         ELSE AfterSettle([taskPc EXCEPT ![t] = "rejected"])
    /\ UNCHANGED <<catalogVars, plannedPos, config, files, translationBatches, languageConcurrency,
                   maxRetries, translationTasks, mergeVars, heapVars>>

\* the object of a request that followed a failed one is dropped unmerged
ProviderReturnsFirstTry(t) ==
    /\ pc = "executing"
    /\ taskPc[t] = "request"
    /\ \E object \in ProviderObjects(translationTasks[t].schema) :
          LET task == translationTasks[t]
              po   == Get(Get(translationPos, task.translationPo[1]),
                          task.translationPo[2])
              st   == UpdateTranslationPoWithResults(po, task.contextKey, object)
          IN  /\ taskObject' = [taskObject EXCEPT ![t] = object]
              /\ translationPos' = IF retries[t] = 0
                                   THEN Store(translationPos, task.translationPo[1],
                                              task.translationPo[2], st.po)
                                   ELSE translationPos
              /\ AfterSettle([taskPc EXCEPT ![t] =
                                 IF st.threw THEN "rejected" ELSE "fulfilled"])
    /\ UNCHANGED <<catalogVars, plannedPos, config, files, translationBatches, languageConcurrency,
                   maxRetries, translationTasks, retries, mergeVars, heapVars>>

\* ProviderReturns merging into the task's catalog as it was when the queue
\* was built, and storing the result
ProviderReturnsStale(t) ==
    /\ pc = "executing"
    /\ taskPc[t] = "request"
    /\ \E object \in ProviderObjects(translationTasks[t].schema) :
          LET task == translationTasks[t]
              po   == Get(Get(plannedPos, task.translationPo[1]),
                          task.translationPo[2])
              st   == UpdateTranslationPoWithResults(po, task.contextKey, object)
          IN  /\ taskObject' = [taskObject EXCEPT ![t] = object]
              /\ translationPos' = Store(translationPos, task.translationPo[1],
                                         task.translationPo[2], st.po)
              /\ AfterSettle([taskPc EXCEPT ![t] =
                                 IF st.threw THEN "rejected" ELSE "fulfilled"])
    /\ UNCHANGED <<catalogVars, plannedPos, config, files, translationBatches, languageConcurrency,
                   maxRetries, translationTasks, retries, mergeVars, heapVars>>

\* generateObject of task t returns (lines 518-530): object is set and the
\* loop ends; lines 557-571 merge it into the task's catalog and the task
\* fulfils, or rejects when the merge throws
ProviderReturns(t) ==
    /\ pc = "executing"
    /\ taskPc[t] = "request"
    /\ \E object \in ProviderObjects(translationTasks[t].schema) :
          LET task == translationTasks[t]
              po   == Get(Get(translationPos, task.translationPo[1]),
                          task.translationPo[2])
              st   == UpdateTranslationPoWithResults(po, task.contextKey, object)
          IN  /\ taskObject' = [taskObject EXCEPT ![t] = object]
              /\ translationPos' = Store(translationPos, task.translationPo[1],
                                         task.translationPo[2], st.po)
              /\ AfterSettle([taskPc EXCEPT ![t] =
                                 IF st.threw THEN "rejected" ELSE "fulfilled"])
    /\ UNCHANGED <<catalogVars, plannedPos, config, files, translationBatches, languageConcurrency,
                   maxRetries, translationTasks, retries, mergeVars, heapVars>>

\* the timer never fires: the task stays at its pause
RetryTimerLost(t) ==
    /\ pc = "executing"
    /\ taskPc[t] = "delay"
    /\ UNCHANGED vars

\* the timer of line 545 fires: the loop of line 505 issues the next request
RetryTimerFires(t) ==
    /\ pc = "executing"
    /\ taskPc[t] = "delay"
    /\ taskPc' = [taskPc EXCEPT ![t] = "request"]
    /\ attempts' = [attempts EXCEPT ![t] = @ + 1]
    /\ UNCHANGED <<pc, catalogVars, plannedPos, config, files, translationPos, translationBatches,
                   languageConcurrency, maxRetries, translationTasks, loopIndex,
                   retries, results, summary, taskObject, mergeVars, heapVars>>

Next ==
    \/ CreateTranslationBatches
    \/ ExecuteTranslations
    \/ \E t \in 1..Len(translationTasks) : ProviderReturns(t)
    \/ \E t \in 1..Len(translationTasks) : ProviderThrows(t)
    \/ \E t \in 1..Len(translationTasks) : RetryTimerFires(t)

Spec == Init /\ [][Next]_vars

\* Spec with the event loop running whatever is ready: every provider call
\* returns or throws and every retry timer fires
\* a step of the event loop for some started task: its provider call throws
\* or returns, or its retry timer fires
EventLoop ==
    \E t \in 1..Len(translationTasks) :
        ProviderThrows(t) \/ RetryTimerFires(t) \/ ProviderReturns(t)

\* and executeTranslations is called once the batches are planned
FairSpec == Init /\ [][Next]_vars /\ WF_vars(ExecuteTranslations) /\ WF_vars(EventLoop)

\* task t is the last of its window
LastOfWindow(t) == t = Len(translationTasks) \/ t % languageConcurrency = 0

\* a step of the event loop for a task other than the last of its window
OtherTasks ==
    \E t \in 1..Len(translationTasks) :
        /\ ~LastOfWindow(t)
        /\ ProviderThrows(t) \/ RetryTimerFires(t) \/ ProviderReturns(t)

\* Spec with a provider that may leave the call of the last task of a
\* window unanswered for ever, and answers every other call
HungSpec == Init /\ [][Next]_vars /\ WF_vars(OtherTasks)

---------------------------------------------------------------------------
(* SpecPlan: the pipeline readConfig, validateConfig,                        *)
(* createTranslationBatches, executeTranslations up to its first suspension, *)
(* on a configuration and a disk drawn from bounded sets                     *)

\* the source locale among the locales, its own file as the source
SourceLocaleConfig ==
    [base_path |-> ".", locales |-> <<"en-US", "fr-FR">>, files |-> ConfigFiles]

\* the files in a directory whose name includes a locale code
ShareConfig ==
    [base_path |-> ".", locales |-> <<"ar", "en-US">>,
     files |-> <<[source |-> "share/en-US.po", translation |-> "share/%locale%.po"]>>]

\* the same directory, the source locale not among the locales
ShareTargetConfig ==
    [base_path |-> ".", locales |-> <<"ar", "fr-FR">>,
     files |-> <<[source |-> "share/en-US.po", translation |-> "share/%locale%.po"]>>]

\* a base_path, and a second file entry whose translation has no placeholder
BasePathConfig ==
    [base_path |-> "sub", locales |-> <<"fr-FR">>,
     files |-> <<[source |-> "en-US.po", translation |-> "%locale%.po"],
                 [source |-> "en-US.po", translation |-> "de-DE.po"]>>]

RECURSIVE DiskOf(_)
\* the disk with the given <<path, content>> files
DiskOf(fs) ==
    IF fs = <<>> THEN EmptyObj
    ELSE Put(DiskOf(SubSeq(fs, 1, Len(fs) - 1)), fs[Len(fs)][1], fs[Len(fs)][2])

\* configurations with disks: every file there, a target missing, the source
\* missing, a file at the working directory instead of base_path
PlanInputs(source) ==
    { [config |-> DefaultConfig,
       disk |-> DiskOf(<< <<"en-US.po", source>>, <<"fr-FR.po", TargetPartial>>,
                          <<"de-DE.po", TargetEmpty>> >>)],
      [config |-> DefaultConfig,
       disk |-> DiskOf(<< <<"en-US.po", source>>, <<"fr-FR.po", TargetPartial>> >>)],
      [config |-> DefaultConfig,
       disk |-> DiskOf(<< <<"fr-FR.po", TargetPartial>>, <<"de-DE.po", TargetEmpty>> >>)],
      [config |-> SourceLocaleConfig,
       disk |-> DiskOf(<< <<"en-US.po", source>>, <<"fr-FR.po", TargetPartial>> >>)],
      [config |-> SourceLocaleConfig,
       disk |-> DiskOf(<< <<"en-US.po", source>> >>)],
      [config |-> ShareConfig,
       disk |-> DiskOf(<< <<"share/en-US.po", source>>,
                          <<"share/ar.po", TargetPartial>> >>)],
      [config |-> ShareTargetConfig,
       disk |-> DiskOf(<< <<"share/en-US.po", source>>,
                          <<"share/ar.po", TargetPartial>>,
                          <<"share/fr-FR.po", TargetPartial>> >>)],
      [config |-> BasePathConfig,
       disk |-> DiskOf(<< <<"sub/en-US.po", source>>, <<"sub/fr-FR.po", TargetPartial>>,
                          <<"de-DE.po", TargetEmpty>> >>)],
      [config |-> BasePathConfig,
       disk |-> DiskOf(<< <<"sub/en-US.po", source>>, <<"sub/fr-FR.po", TargetPartial>>,
                          <<"sub/de-DE.po", TargetEmpty>> >>)],
      [config |-> BasePathConfig,
       disk |-> DiskOf(<< <<"sub/en-US.po", source>>, <<"sub/fr-FR.po", TargetPartial>>,
                          <<"sub/de-DE.po", TargetEmpty>>,
                          <<"de-DE.po", TargetEmpty>> >>)] }

\* the engine after readConfig (line 239)
InitPlan ==
    /\ NoHeap
    /\ pc = "loaded"
    /\ \E source \in RunSources : \E input \in PlanInputs(source) :
          /\ config = input.config
          /\ files = input.disk
    /\ batchSize \in 1..MaxRunBatchSize
    /\ languageConcurrency \in 1..MaxConcurrency
    /\ maxRetries \in 0..MaxRetries
    /\ sourcePo = EmptyPo
    /\ translationPos = EmptyObj
    /\ translationBatches = EmptyObj
    /\ translationTasks = <<>>
    /\ loopIndex = 0
    /\ taskPc = <<>>
    /\ retries = <<>>
    /\ attempts = <<>>
    /\ results = <<>>
    /\ summary = [successful |-> 0, failed |-> 0]
    /\ taskObject = <<>>
    /\ plannedPos = EmptyObj
    /\ NoMerge
    /\ translationPo = EmptyPo
    /\ prePo = EmptyPo
    /\ oncePo = EmptyPo
    /\ threw = FALSE
    /\ emptyMsgStrs = EmptyObj
    /\ schemaBatches = NoBatches

\* validateConfig(): returns, or throws and the caller's catch ends the run
ValidateConfig ==
    /\ pc = "loaded"
    /\ pc' = IF ConfigValid(files) THEN "configured" ELSE "failed"
    /\ threw' = ~ConfigValid(files)
    /\ UNCHANGED <<sourcePo, translationPo, prePo, oncePo, emptyMsgStrs, batchSize,
                   schemaBatches, runVars, mergeVars, heapVars>>

NextPlan ==
    \/ ValidateConfig
    \/ CreateTranslationBatches
    \/ ExecuteTranslations

SpecPlan == InitPlan /\ [][NextPlan]_vars

---------------------------------------------------------------------------
(* SpecMerge: _updateTranslationPoWithResults on a catalog, a context key   *)
(* and a response drawn from bounded sets                                   *)

\* largest number of keys of a response
MaxResultKeys == 2

StrBlank == <<" ">>

StrInner == <<"a", " ", "b", "\t">>

\* the strings of a response: plain, padded, blank, empty, with inner space
MergeStrings == {StrX, StrPadded, StrBlank, EmptyString, StrInner}

\* the keys of a response: of entries, of no entry, of Object.prototype and
\* of its functions
MergeMsgids == {"hello", "1", "bye", "constructor", "name"}

\* the contextKey argument: a context, possibly absent, or a name of
\* Object.prototype
MergeContextKeys == {"", "menu", "constructor"}

MergeCatalogs ==
    { EmptyPo,
      TargetPartial,
      PoOf(<< <<"", "", <<StrS>> >>, <<"", "hello", <<EmptyString>> >>,
              <<"", "1", <<>> >>, <<"menu", "hello", <<StrT>> >>,
              <<"menu", "1", <<EmptyString>> >> >>),
      PoOf(<< <<"", "name", <<EmptyString>> >>, <<"", "constructor", <<>> >> >>),
      PoOf(<< <<"menu", "bye", <<EmptyString>> >>, <<"menu", "hello", <<StrT>> >> >>) }

InitMerge ==
    /\ NoHeap
    /\ pc = "response"
    /\ translationPo \in MergeCatalogs
    /\ prePo = translationPo
    /\ mergeContextKey \in MergeContextKeys
    /\ mergeObject = EmptyObj
    /\ sourcePo = EmptyPo
    /\ oncePo = EmptyPo
    /\ threw = FALSE
    /\ emptyMsgStrs = EmptyObj
    /\ batchSize = 1
    /\ schemaBatches = NoBatches
    /\ NoRun

\* the response gains a property (in the order the provider wrote them)
ResponseKey ==
    /\ pc = "response"
    /\ Size(mergeObject) < MaxResultKeys
    /\ \E k \in MergeMsgids, v \in MergeStrings :
          /\ ~HasOwn(mergeObject, k)
          /\ mergeObject' = Put(mergeObject, k, v)
    /\ UNCHANGED <<pc, catalogVars, runVars, mergeContextKey, heapVars>>

\* _updateTranslationPoWithResults(translationPo, contextKey, object)
Merge ==
    /\ pc = "response"
    /\ LET st == UpdateTranslationPoWithResults(translationPo, mergeContextKey,
                                                mergeObject)
       IN  /\ translationPo' = st.po
           /\ threw' = st.threw
    /\ pc' = "merged"
    /\ UNCHANGED <<sourcePo, prePo, oncePo, emptyMsgStrs, batchSize, schemaBatches,
                   runVars, mergeVars, heapVars>>

NextMerge == ResponseKey \/ Merge

SpecMerge == InitMerge /\ [][NextMerge]_vars

---------------------------------------------------------------------------
(* SpecAlias: the catalogs as object graphs.  An entry is an object with an  *)
(* identity, its msgstr an array with an identity and its comments an object *)
(* with an identity: a catalog maps context and msgid to the address of an   *)
(* entry, and heap holds the objects by address.  The source is parsed, then *)
(* each target; createTranslationBatches synchronizes the source into every *)
(* target; then responses are merged into the targets.                      *)

\* largest number of merges of a run of SpecAlias
MaxMerges == 2

\* the number of target catalogs: one per configured locale
AliasTargets == Len(ConfigLocales)

Ref(a) == [tag |-> "ref", addr |-> a]

ArrayCell(items) == [tag |-> "array", items |-> items]

CommentsCell(text) == [tag |-> "comments", translator |-> text]

\* an entry object: its msgstr and comments properties hold references
EntryCell(msgid, msgstr, comments) ==
    [tag |-> "entry", msgid |-> msgid, msgstr |-> msgstr, comments |-> comments]

\* gettextParser.po.parse storing one <<msgctxt, msgid, msgstr>> token: three
\* new objects
RefParseAdd(st, token) ==
    LET h  == st.heap
        h1 == h \o << ArrayCell(token[3]), CommentsCell("file"),
                      EntryCell(token[2], Ref(Len(h) + 1), Ref(Len(h) + 2)) >>
        t0 == st.po.translations
        t1 == IF ~Truthy(Get(t0, token[1])) THEN Put(t0, token[1], EmptyObj) ELSE t0
    IN  [heap |-> h1,
         po   |-> [translations |->
                      Put(t1, token[1],
                          Put(Get(t1, token[1]), token[2], Ref(Len(h) + 3)))]]

RECURSIVE RefParse(_, _)
\* gettextParser.po.parse of a file with the given tokens, allocating in h
RefParse(h, tokens) ==
    IF tokens = <<>> THEN [heap |-> h, po |-> EmptyPo]
    ELSE RefParseAdd(RefParse(h, SubSeq(tokens, 1, Len(tokens) - 1)),
                     tokens[Len(tokens)])

\* translationContext[msgid] = sourceContext[msgid], without the copy
RefSyncMsgidShared(h, sourceContext, translationContext, msgid) ==
    LET cur == Get(translationContext, msgid)
        src == Get(sourceContext, msgid)
    IN  IF ~Truthy(cur)
        THEN IF msgid # ""
             THEN [heap  |-> [h \o <<ArrayCell(<<EmptyString>>)>>
                                 EXCEPT ![src.addr].msgstr = Ref(Len(h) + 1)],
                   ctx   |-> Put(translationContext, msgid, src),
                   threw |-> FALSE]
             ELSE [heap  |-> h,
                   ctx   |-> Put(translationContext, msgid, src),
                   threw |-> FALSE]
        ELSE IF msgid # ""
        THEN IF cur.tag # "ref"
             THEN [heap |-> h, ctx |-> translationContext, threw |-> TRUE]
             ELSE IF Len(h[h[cur.addr].msgstr.addr].items) = 0
             THEN [heap  |-> [h \o <<ArrayCell(<<EmptyString>>)>>
                                 EXCEPT ![cur.addr].msgstr = Ref(Len(h) + 1)],
                   ctx   |-> translationContext,
                   threw |-> FALSE]
             ELSE [heap |-> h, ctx |-> translationContext, threw |-> FALSE]
        ELSE [heap |-> h, ctx |-> translationContext, threw |-> FALSE]

\* body of the inner loop (lines 940-954) for one msgid.  Line 942 creates a
\* new object with the properties of the source entry: the property values,
\* references to the source's msgstr array and comments object, are copied;
\* line 946 and line 953 store a new array in the target's entry.
RefSyncMsgid(h, sourceContext, translationContext, msgid) ==
    LET cur == Get(translationContext, msgid)
        src == Get(sourceContext, msgid)
    IN  IF ~Truthy(cur)
        THEN IF msgid # ""
             THEN [heap  |-> h \o << [h[src.addr] EXCEPT !.msgstr = Ref(Len(h) + 2)],
                                     ArrayCell(<<EmptyString>>) >>,
                   ctx   |-> Put(translationContext, msgid, Ref(Len(h) + 1)),
                   threw |-> FALSE]
             ELSE [heap  |-> h \o <<h[src.addr]>>,
                   ctx   |-> Put(translationContext, msgid, Ref(Len(h) + 1)),
                   threw |-> FALSE]
        ELSE IF msgid # ""
        THEN IF cur.tag # "ref"
             THEN [heap |-> h, ctx |-> translationContext, threw |-> TRUE]
             ELSE IF Len(h[h[cur.addr].msgstr.addr].items) = 0
             THEN [heap  |-> [h \o <<ArrayCell(<<EmptyString>>)>>
                                 EXCEPT ![cur.addr].msgstr = Ref(Len(h) + 1)],
                   ctx   |-> translationContext,
                   threw |-> FALSE]
             ELSE [heap |-> h, ctx |-> translationContext, threw |-> FALSE]
        ELSE [heap |-> h, ctx |-> translationContext, threw |-> FALSE]

RECURSIVE RefSyncContext(_, _, _, _)
\* the inner for-in loop from the i-th msgid of the source context on
RefSyncContext(h, sourceContext, translationContext, i) ==
    IF i > Size(sourceContext)
    THEN [heap |-> h, ctx |-> translationContext, threw |-> FALSE]
    ELSE LET r == RefSyncMsgid(h, sourceContext, translationContext,
                               KeyAt(sourceContext, i))
         IN  IF r.threw THEN r
             ELSE RefSyncContext(r.heap, sourceContext, r.ctx, i + 1)

RECURSIVE RefSyncContexts(_, _, _, _)
\* the outer for-in loop from the i-th context of the source on
RefSyncContexts(h, source, target, i) ==
    IF i > Size(source.translations)
    THEN [heap |-> h, po |-> target, threw |-> FALSE]
    ELSE LET contextKey == KeyAt(source.translations, i)
             t0 == target.translations
             t1 == IF ~Truthy(Get(t0, contextKey))
                   THEN Put(t0, contextKey, EmptyObj) ELSE t0
             r  == RefSyncContext(h, ValueAt(source.translations, i),
                                  Get(t1, contextKey), 1)
             po == [target EXCEPT !.translations = Put(t1, contextKey, r.ctx)]
         IN  IF r.threw THEN [heap |-> r.heap, po |-> po, threw |-> TRUE]
             ELSE RefSyncContexts(r.heap, source, po, i + 1)

RECURSIVE RefSyncTargets(_, _, _, _)
\* the loop over the locales (lines 355-374) on the object graph: the source
\* synchronized into the n-th target and those after it
RefSyncTargets(h, source, targets, n) ==
    IF n > Len(targets) THEN [heap |-> h, targets |-> targets, threw |-> FALSE]
    ELSE LET r == RefSyncContexts(h, source, targets[n], 1)
         IN  IF r.threw
             THEN [heap |-> r.heap, targets |-> [targets EXCEPT ![n] = r.po],
                   threw |-> TRUE]
             ELSE RefSyncTargets(r.heap, source, [targets EXCEPT ![n] = r.po], n + 1)

\* lines 839-845 for one msgid of the response: line 844 stores a new array
\* in the entry object context[msgid] refers to
RefUpdateMsgid(h, context, object, msgid) ==
    LET cur == Get(context, msgid)
    IN  IF Truthy(cur) /\ cur.tag = "ref"
        THEN [h \o <<ArrayCell(<<Translation(Get(object, msgid))>>)>>
                 EXCEPT ![cur.addr].msgstr = Ref(Len(h) + 1)]
        ELSE h

RECURSIVE RefUpdateFrom(_, _, _, _)
\* the for-in loop of line 838 from the n-th key of the response on
RefUpdateFrom(h, context, object, n) ==
    IF n > Size(object) THEN h
    ELSE RefUpdateFrom(RefUpdateMsgid(h, context, object, KeyAt(object, n)),
                       context, object, n + 1)

\* _updateTranslationPoWithResults(translationPo, contextKey, object) on the
\* object graph: the heap as the call leaves it
RefUpdateTranslationPoWithResults(h, po, contextKey, object) ==
    LET context == Get(po.translations, contextKey)
    IN  IF ~Truthy(context) \/ context.tag # "object" THEN h
        ELSE RefUpdateFrom(h, context, object, 1)

RECURSIVE DerefContext(_, _, _)
\* the first n entries of a context, each with the content of its objects
DerefContext(h, context, n) ==
    IF n = 0 THEN EmptyObj
    ELSE LET e == h[ValueAt(context, n).addr]
         IN  Put(DerefContext(h, context, n - 1), KeyAt(context, n),
                 Entry(e.msgid, h[e.msgstr.addr].items, h[e.comments.addr].translator))

RECURSIVE DerefContexts(_, _, _)
DerefContexts(h, po, n) ==
    IF n = 0 THEN EmptyObj
    ELSE Put(DerefContexts(h, po, n - 1), KeyAt(po.translations, n),
             DerefContext(h, ValueAt(po.translations, n),
                          Size(ValueAt(po.translations, n))))

\* the catalog po of references as a catalog of values: what writing it to a
\* file would serialize
Deref(h, po) == [translations |-> DerefContexts(h, po, Size(po.translations))]

\* source files: a header and entries in two contexts; a header and an entry
AliasSources ==
    { << <<"", "", <<StrS>> >>, <<"", "hello", <<EmptyString>> >>,
         <<"menu", "1", <<EmptyString>> >> >>,
      << <<"", "", <<StrS>> >>, <<"", "bye", <<StrS>> >> >> }

\* target files: empty; a translated entry and one with an empty array; an
\* own header and an entry with an empty array
AliasTargetFiles ==
    { <<>>,
      << <<"", "hello", <<StrT>> >>, <<"", "bye", <<>> >> >>,
      << <<"", "", <<StrT>> >>, <<"", "hello", <<>> >> >> }

\* the responses merged: one or two keys, of entries and of the header
AliasObjects ==
    {ObjectOf(<<k>>, StrPadded, 1) : k \in {"", "hello", "1", "bye"}}
        \cup {ObjectOf(<<"hello", "bye">>, StrPadded, 1)}

RECURSIVE RefParseTargets(_, _)
\* the target files parsed in order, allocating in h
RefParseTargets(h, tokenLists) ==
    IF tokenLists = <<>> THEN [heap |-> h, targets |-> <<>>]
    ELSE LET st == RefParseTargets(h, SubSeq(tokenLists, 1, Len(tokenLists) - 1))
             r  == RefParse(st.heap, tokenLists[Len(tokenLists)])
         IN  [heap |-> r.heap, targets |-> Append(st.targets, r.po)]

InitAlias ==
    /\ pc = "parsed"
    /\ \E tokens \in AliasSources :
       \E tokenLists \in [1..AliasTargets -> AliasTargetFiles] :
          LET src == RefParse(<<>>, tokens)
              tgt == RefParseTargets(src.heap, tokenLists)
          IN  /\ heap = tgt.heap
              /\ sourceRef = src.po
              /\ targetRefs = tgt.targets
    /\ merged = 0
    /\ sourcePo = EmptyPo
    /\ translationPo = EmptyPo
    /\ prePo = EmptyPo
    /\ oncePo = EmptyPo
    /\ threw = FALSE
    /\ emptyMsgStrs = EmptyObj
    /\ batchSize = 1
    /\ schemaBatches = NoBatches
    /\ NoRun
    /\ NoMerge

\* createTranslationBatches on the object graph: the source synchronized
\* into every target, in order
SyncTargets ==
    /\ pc = "parsed"
    /\ LET st == RefSyncTargets(heap, sourceRef, targetRefs, 1)
       IN  /\ heap' = st.heap
           /\ targetRefs' = st.targets
           /\ threw' = st.threw
           /\ pc' = IF st.threw THEN "failed" ELSE "synced"
    /\ UNCHANGED <<sourcePo, translationPo, prePo, oncePo, emptyMsgStrs, batchSize,
                   schemaBatches, runVars, mergeVars, sourceRef, merged>>

\* a task's merge (line 562) into the i-th target
MergeInto(i) ==
    /\ pc = "synced"
    /\ merged < MaxMerges
    /\ \E contextKey \in {"", "menu"}, object \in AliasObjects :
          heap' = RefUpdateTranslationPoWithResults(heap, targetRefs[i], contextKey,
                                                    object)
    /\ merged' = merged + 1
    /\ UNCHANGED <<pc, catalogVars, runVars, mergeVars, sourceRef, targetRefs>>

NextAlias ==
    \/ SyncTargets
    \/ \E i \in 1..AliasTargets : MergeInto(i)

SpecAlias == InitAlias /\ [][NextAlias]_vars

---------------------------------------------------------------------------
(* Properties of synchronization and backlog extraction (SpecSync) *)

ContextsOf(po) == {KeyAt(po.translations, i) : i \in 1..Size(po.translations)}

MsgidsOf(po, c) ==
    LET ctx == Get(po.translations, c) IN {KeyAt(ctx, i) : i \in 1..Size(ctx)}

EntryOf(po, c, k) == Get(Get(po.translations, c), k)

AfterSync == pc \in {"synced", "resynced"}

\* the two representations of a pending translation
Pending(msgstr) == msgstr = <<>> \/ msgstr = <<EmptyString>>

\* C1: after synchronization every context of the source is a context of the
\* target and every key of the source context is a key of the target context,
\* for every key the source can contain and every initial target.
C1_SourceKeysInTarget ==
    AfterSync =>
        \A c \in ContextsOf(sourcePo) :
            /\ c \in ContextsOf(translationPo)
            /\ \A k \in MsgidsOf(sourcePo, c) : k \in MsgidsOf(translationPo, c)

\* C2: synchronization removes no context and no entry of the target, and an
\* entry that had a non-empty translated string keeps its translated form.
C2_SyncPreservesTarget ==
    AfterSync =>
        \A c \in ContextsOf(prePo) :
            /\ c \in ContextsOf(translationPo)
            /\ \A k \in MsgidsOf(prePo, c) :
                   /\ k \in MsgidsOf(translationPo, c)
                   /\ ~Pending(EntryOf(prePo, c, k).msgstr) =>
                          EntryOf(translationPo, c, k).msgstr = EntryOf(prePo, c, k).msgstr

\* a translated entry of the target whose key the source has too was synchronized
C2_Witness ==
    /\ pc = "synced"
    /\ translationPo # prePo
    /\ \E c \in ContextsOf(prePo) : \E k \in MsgidsOf(prePo, c) :
          /\ EntryOf(prePo, c, k).msgstr = <<StrT>>
          /\ c \in ContextsOf(sourcePo)
          /\ k \in MsgidsOf(sourcePo, c)
          /\ k # ""

\* C3: synchronizing twice with the same source leaves the target as
\* synchronizing once did (contexts, keys, key order, translated forms).
C3_SyncIdempotent == pc = "resynced" => translationPo = oncePo

\* the first synchronization changed the target, the second ran on its result
C3_Witness ==
    /\ pc = "resynced"
    /\ ~threw
    /\ oncePo # prePo
    /\ \E c \in ContextsOf(oncePo) : MsgidsOf(oncePo, c) # {}
                                      /\ c \notin ContextsOf(prePo)

CreatedBySync(c, k) ==
    /\ c \in ContextsOf(translationPo)
    /\ k \in MsgidsOf(translationPo, c)
    /\ ~(c \in ContextsOf(prePo) /\ k \in MsgidsOf(prePo, c))

\* C4: an entry synchronization creates for a non-header key has the
\* translated form [""], whatever the source's; an entry created for the
\* header key "" carries the source header's translated form.
C4_CreatedEntriesPending ==
    pc = "synced" =>
        \A c \in ContextsOf(translationPo) : \A k \in MsgidsOf(translationPo, c) :
            CreatedBySync(c, k) =>
                EntryOf(translationPo, c, k).msgstr =
                    IF k = "" THEN EntryOf(sourcePo, c, "").msgstr ELSE <<EmptyString>>

\* a translated source entry and a source header were both created in the target
C4_Witness ==
    /\ pc = "synced"
    /\ \E c \in ContextsOf(translationPo) :
          /\ CreatedBySync(c, "")
          /\ EntryOf(sourcePo, c, "").msgstr = <<StrS>>
          /\ \E k \in MsgidsOf(translationPo, c) :
                k # "" /\ CreatedBySync(c, k) /\ EntryOf(sourcePo, c, k).msgstr = <<StrS>>

\* C5: after a synchronization that returned, no non-header entry of the
\* target has the empty sequence as its translated forms, whether or not its
\* key occurs in the source.
C5_NoEmptySequenceAfterSync ==
    (AfterSync /\ ~threw) =>
        \A c \in ContextsOf(translationPo) : \A k \in MsgidsOf(translationPo, c) :
            k # "" => EntryOf(translationPo, c, k).msgstr # <<>>

PendingKey(ctx, k) == k # "" /\ Pending(Get(ctx, k).msgstr)

BacklogKeys(c) ==
    IF HasOwn(emptyMsgStrs, c) THEN OwnKeys(Get(emptyMsgStrs, c)) ELSE <<>>

\* C6: for a synchronized target the backlog holds, per context, exactly the
\* non-header keys whose translated form is pending, in the order of the
\* context's own keys; never the header key, never a translated key.
C6_BacklogExact ==
    pc = "found" =>
        /\ \A i \in 1..Size(emptyMsgStrs) :
              KeyAt(emptyMsgStrs, i) \in ContextsOf(translationPo)
        /\ \A c \in ContextsOf(translationPo) :
              LET ctx == Get(translationPo.translations, c)
              IN  BacklogKeys(c) = SelectSeq(OwnKeys(ctx), LAMBDA k : PendingKey(ctx, k))

\* a context with a header, a translated entry and a backlog was extracted
C6_Witness ==
    /\ pc = "found"
    /\ \E c \in ContextsOf(translationPo) :
          /\ "" \in MsgidsOf(translationPo, c)
          /\ Len(BacklogKeys(c)) >= 1
          /\ \E k \in MsgidsOf(translationPo, c) :
                EntryOf(translationPo, c, k).msgstr = <<StrT>>

---------------------------------------------------------------------------
(* Properties of batch planning (SpecBatch) *)

\* number of batches planned for context c
BatchCount(c) == Size(Get(schemaBatches, c))

\* Object.keys(schema.shape) of batch n of context c
BatchKeys(c, n) == OwnKeys(Get(Get(schemaBatches, c), NumberKey(n)).shape)

\* the batches of context c are numbered 0 .. BatchCount(c) - 1
BatchesNumbered(c) ==
    \A i \in 1..BatchCount(c) : KeyAt(Get(schemaBatches, c), i) = NumberKey(i - 1)

RECURSIVE ConcatBatches(_, _)
\* the key lists of batches n, n + 1, ... of context c, concatenated
ConcatBatches(c, n) ==
    IF n >= BatchCount(c) THEN <<>>
    ELSE BatchKeys(c, n) \o ConcatBatches(c, n + 1)

\* C7: the batches of a context partition its backlog: concatenated in
\* batch-index order their key lists give the backlog key list.
C7_BatchesPartitionBacklog ==
    pc = "batched" =>
        \A i \in 1..Size(emptyMsgStrs) :
            LET c == KeyAt(emptyMsgStrs, i)
            IN  /\ HasOwn(schemaBatches, c)
                /\ BatchesNumbered(c)
                /\ ConcatBatches(c, 0) = OwnKeys(Get(emptyMsgStrs, c))

\* a backlog of four keys, array-index keys among them, was cut into batches
C7_Witness ==
    /\ pc = "batched"
    /\ batchSize = 3
    /\ \E i \in 1..Size(emptyMsgStrs) :
          /\ Size(ValueAt(emptyMsgStrs, i)) = 4
          /\ BatchCount(KeyAt(emptyMsgStrs, i)) = 2

\* C8: a backlog of n >= 1 keys and batchSize b >= 1 give ceil(n/b) batches
\* numbered from 0; every batch but the last has b keys and the last has
\* n mod b keys (b when b divides n).
C8_BatchCountAndSizes ==
    pc = "batched" =>
        \A i \in 1..Size(emptyMsgStrs) :
            LET c == KeyAt(emptyMsgStrs, i)
                n == Size(Get(emptyMsgStrs, c))
                b == batchSize
                count == (n + b - 1) \div b
            IN  n >= 1 =>
                  /\ BatchCount(c) = count
                  /\ BatchesNumbered(c)
                  /\ \A m \in 0..(count - 2) : Len(BatchKeys(c, m)) = b
                  /\ Len(BatchKeys(c, count - 1)) = IF n % b = 0 THEN b ELSE n % b

\* a last batch smaller than batchSize, after a full one
C8_Witness ==
    /\ pc = "batched"
    /\ batchSize = 2
    /\ \E i \in 1..Size(emptyMsgStrs) :
          /\ Size(ValueAt(emptyMsgStrs, i)) = 3
          /\ BatchCount(KeyAt(emptyMsgStrs, i)) = 2
          /\ Len(BatchKeys(KeyAt(emptyMsgStrs, i), 1)) = 1

---------------------------------------------------------------------------
(* Properties of the executor (Spec) *)

\* tasks started and not settled: awaiting the provider or a retry timer
InFlight == {t \in 1..Len(taskPc) : taskPc[t] \in {"request", "delay"}}

\* C9: in every state of executeTranslations the tasks started and not yet
\* settled, those in a retry delay included, number at most languageConcurrency.
C9_InFlightBounded == Cardinality(InFlight) <= languageConcurrency

\* a full window is in flight, one of its tasks in a retry delay, more queued
C9_Witness ==
    /\ pc = "executing"
    /\ languageConcurrency = 2
    /\ Cardinality(InFlight) = 2
    /\ \E t \in InFlight : taskPc[t] = "delay"
    /\ \E t \in 1..Len(taskPc) : taskPc[t] = "idle"

\* the window (from 0) of the task at queue position t (from 1)
WindowOf(t) == (t - 1) \div languageConcurrency

\* C10: a task of a later window has issued no provider request while a
\* task of an earlier window is unsettled (requesting or in a retry delay).
C10_WindowBarrier ==
    \A t \in 1..Len(taskPc) :
        attempts[t] >= 1 =>
            \A u \in 1..Len(taskPc) : WindowOf(u) < WindowOf(t) => Settled(taskPc[u])

\* a second window started after a first one that held a retried task and a
\* rejected task
C10_Witness ==
    /\ pc = "executing"
    /\ languageConcurrency = 2
    /\ \E t \in 1..Len(taskPc) : WindowOf(t) = 1 /\ taskPc[t] = "request"
    /\ \E u \in 1..Len(taskPc) :
          WindowOf(u) = 0 /\ taskPc[u] = "fulfilled" /\ retries[u] >= 1
    /\ \E u \in 1..Len(taskPc) : WindowOf(u) = 0 /\ taskPc[u] = "rejected"

Tasks == 1..Len(translationTasks)

Rejected == {t \in Tasks : taskPc[t] = "rejected"}

Fulfilled == {t \in Tasks : taskPc[t] = "fulfilled"}

\* C11: a task is rejected only after maxRetries + 1 provider requests, every
\* one of which failed, and no task ever issues more than maxRetries + 1.
C11_FailsAfterAllAttempts ==
    \A t \in 1..Len(taskPc) :
        /\ attempts[t] <= maxRetries + 1
        /\ retries[t] <= attempts[t]
        /\ taskPc[t] = "rejected" =>
              attempts[t] = maxRetries + 1 /\ retries[t] = maxRetries + 1

\* a task rejected after one retry, and one rejected with no retry allowed
C11_Witness ==
    /\ maxRetries = 1
    /\ \E t \in Rejected : attempts[t] = 2 /\ retries[t] = 2

\* C12: once a task has exhausted its retries, and provided every provider
\* call returns or throws, the run still reaches its end with every task of
\* the queue settled after at least one provider request of its own.
C12_FailureIsolation ==
    (pc = "executing" /\ Rejected # {})
        ~> (pc = "done" /\ \A t \in Tasks : attempts[t] >= 1 /\ Settled(taskPc[t]))

\* the first task of the queue rejected; its sibling and a task of the next
\* window fulfilled
C12_Witness ==
    /\ pc = "done"
    /\ languageConcurrency = 2
    /\ Len(translationTasks) >= 3
    /\ taskPc[1] = "rejected"
    /\ taskPc[2] = "fulfilled"
    /\ taskPc[3] = "fulfilled" /\ attempts[3] >= 1

\* C13: with a queue built, executeTranslations never rejects (pc "failed"):
\* it is executing or has returned, and a returned run shows its rejected
\* tasks in the failure count only.
C13_NeverRejects ==
    /\ Len(translationTasks) > 0 => pc \in {"executing", "done"}
    /\ pc = "done" => summary.failed = Cardinality(Rejected)

\* a run returned with every one of its several tasks rejected
C13_Witness ==
    /\ pc = "done"
    /\ Len(translationTasks) >= 2
    /\ Rejected = Tasks
    /\ summary.failed = Len(translationTasks)

\* C14: at the end of executeTranslations results holds one outcome per task,
\* in queue order; successful counts the tasks whose request returned, failed
\* those that exhausted their retries, and the two add up to the queue.
C14_OneOutcomePerTask ==
    pc = "done" =>
        /\ Len(results) = Len(translationTasks)
        /\ \A t \in Tasks :
              /\ results[t].status = taskPc[t]
              /\ results[t].sourcePath = translationTasks[t].sourcePath
              /\ results[t].translationPath = translationTasks[t].translationPath
              /\ taskPc[t] = "fulfilled" <=> taskObject[t] # Undefined
              /\ taskPc[t] = "rejected" <=> retries[t] = maxRetries + 1
        /\ summary.successful = Cardinality(Fulfilled)
        /\ summary.failed = Cardinality(Rejected)
        /\ summary.successful + summary.failed = Len(translationTasks)

\* a run ended with successes and a failure over two windows
C14_Witness ==
    /\ pc = "done"
    /\ Len(translationTasks) = 4
    /\ languageConcurrency = 2
    /\ summary.successful = 3
    /\ summary.failed = 1

\* the catalog of task t in this.translationPos
TaskPo(t) ==
    Get(Get(translationPos, translationTasks[t].sourcePath),
        translationTasks[t].translationPath)

\* the catalog of task t in the table pos
PoIn(pos, t) ==
    Get(Get(pos, translationTasks[t].sourcePath), translationTasks[t].translationPath)

\* the keys of task t's batch
SchemaKeys(t) ==
    {KeyAt(translationTasks[t].schema.shape, n) :
        n \in 1..Size(translationTasks[t].schema.shape)}

\* the keys of context c in the backlog extracted from po
BacklogOf(po, c) ==
    LET found == FindEntriesNeedingTranslation(po)
    IN  IF HasOwn(found, c)
        THEN {KeyAt(Get(found, c), n) : n \in 1..Size(Get(found, c))}
        ELSE {}

\* C15: after the run, every key of a rejected task's batch has the entry
\* createTranslationBatches left, its translated form pending, and a new
\* backlog extraction returns the key.
C15_FailedTaskWritesNothing ==
    (pc = "done" /\ Rejected # {}) =>
        \A t \in Rejected :
            LET c   == translationTasks[t].contextKey
                now == Get(TaskPo(t).translations, c)
                was == Get(PoIn(plannedPos, t).translations, c)
            IN  /\ \A k \in SchemaKeys(t) :
                      Get(now, k) = Get(was, k) /\ Pending(Get(now, k).msgstr)
                /\ SchemaKeys(t) \subseteq BacklogOf(TaskPo(t), c)

\* a rejected task whose sibling of the same catalog and context fulfilled
C15_Witness ==
    /\ pc = "done"
    /\ \E t \in Rejected : \E u \in Fulfilled :
          /\ translationTasks[u].translationPath = translationTasks[t].translationPath
          /\ translationTasks[u].contextKey = translationTasks[t].contextKey
          /\ EntryOf(TaskPo(t), translationTasks[t].contextKey,
                     KeyAt(translationTasks[t].schema.shape, 1)).msgstr = <<>>

---------------------------------------------------------------------------
(* Properties of the merge (SpecMerge) *)

\* po has an entry for key k in context c
HasEntry(po, c, k) == HasOwn(po.translations, c) /\ HasOwn(Get(po.translations, c), k)

\* m is v with its leading and trailing whitespace removed
IsTrimOf(m, v) ==
    /\ m = <<>> \/ (m[1] \notin Whitespace /\ m[Len(m)] \notin Whitespace)
    /\ \E i \in 0..Len(v) :
          /\ i + Len(m) <= Len(v)
          /\ SubSeq(v, i + 1, i + Len(m)) = m
          /\ \A j \in 1..Len(v) : (j <= i \/ j > i + Len(m)) => v[j] \in Whitespace

\* C16: the merge leaves every entry of another context, and every entry of
\* the given context whose key is not in the response, as it was; an entry
\* it does change keeps everything but its translated form.
C16_MergeFrame ==
    pc = "merged" =>
        /\ ContextsOf(translationPo) = ContextsOf(prePo)
        /\ \A c \in ContextsOf(prePo) : \A k \in MsgidsOf(prePo, c) :
              /\ (c # mergeContextKey \/ ~HasOwn(mergeObject, k)) =>
                    EntryOf(translationPo, c, k) = EntryOf(prePo, c, k)
              /\ [EntryOf(translationPo, c, k) EXCEPT !.msgstr = <<>>]
                    = [EntryOf(prePo, c, k) EXCEPT !.msgstr = <<>>]

\* one entry of the context rewritten, a pending one beside it and an entry
\* of the same key in another context left alone
C16_Witness ==
    /\ pc = "merged"
    /\ mergeContextKey = ""
    /\ HasOwn(mergeObject, "hello")
    /\ ~HasOwn(mergeObject, "1")
    /\ HasEntry(prePo, "", "hello") /\ HasEntry(prePo, "", "1")
    /\ HasEntry(prePo, "menu", "hello")
    /\ EntryOf(translationPo, "", "hello") # EntryOf(prePo, "", "hello")
    /\ EntryOf(translationPo, "", "1").msgstr = <<>>
    /\ EntryOf(translationPo, "menu", "hello").msgstr = <<StrT>>

C18_MergeKeepsKeysNoError ==
    pc = "merged" =>
        /\ ~threw
        /\ ContextsOf(translationPo) = ContextsOf(prePo)
        /\ \A c \in ContextsOf(prePo) :
              OwnKeys(Get(translationPo.translations, c))
                  = OwnKeys(Get(prePo.translations, c))

---------------------------------------------------------------------------
(* Properties of the executor's merges (Spec) *)

\* the step in which the provider call of task t returns the first object
Returned(t) ==
    /\ pc = "executing"
    /\ taskPc[t] = "request"
    /\ taskObject[t] = Undefined
    /\ taskObject'[t] # Undefined

\* C19: a task whose provider call has returned an object is fulfilled, with
\* no request after the one that returned, also when the object lacks keys
\* of the batch; then the keys returned are merged (trimmed) and the entry of
\* every absent key of the batch is the pending one createTranslationBatches
\* left.
C19_PartialResponseAccepted ==
    \A t \in Tasks :
        taskObject[t] # Undefined =>
            /\ taskPc[t] = "fulfilled"
            /\ attempts[t] = retries[t] + 1
            /\ Size(taskObject[t]) < Size(translationTasks[t].schema.shape) =>
                  LET c   == translationTasks[t].contextKey
                      was == Get(PoIn(plannedPos, t).translations, c)
                      now == Get(TaskPo(t).translations, c)
                      obj == taskObject[t]
                  IN  \A k \in SchemaKeys(t) :
                         IF HasOwn(obj, k)
                         THEN /\ Len(Get(now, k).msgstr) = 1
                              /\ IsTrimOf(Get(now, k).msgstr[1], Get(obj, k))
                         ELSE /\ Get(now, k) = Get(was, k)
                              /\ Pending(Get(now, k).msgstr)

\* a task of two keys fulfilled at its first request by a response with the
\* first key only: that key translated, the other pending
C19_Witness ==
    \E t \in Fulfilled :
        LET shape == translationTasks[t].schema.shape
            ctx   == Get(TaskPo(t).translations, translationTasks[t].contextKey)
        IN  /\ Size(shape) = 2
            /\ Size(taskObject[t]) = 1
            /\ HasOwn(taskObject[t], KeyAt(shape, 1))
            /\ retries[t] = 0 /\ attempts[t] = 1
            /\ Get(ctx, KeyAt(shape, 1)).msgstr = <<StrX>>
            /\ Pending(Get(ctx, KeyAt(shape, 2)).msgstr)

\* tasks t and u work on the same context of the same catalog
SameTarget(t, u) ==
    /\ translationTasks[t].sourcePath = translationTasks[u].sourcePath
    /\ translationTasks[t].translationPath = translationTasks[u].translationPath
    /\ translationTasks[t].contextKey = translationTasks[u].contextKey

\* the catalogs of the table pos as <<sourcePath, translationPath>> pairs
PathsOf(pos) ==
    UNION {{<<KeyAt(pos, i), KeyAt(ValueAt(pos, i), j)>> :
               j \in 1..Size(ValueAt(pos, i))} : i \in 1..Size(pos)}

\* task t owns key k of context c of the catalog at path p
Owns(t, p, c, k) ==
    /\ translationTasks[t].sourcePath = p[1]
    /\ translationTasks[t].translationPath = p[2]
    /\ translationTasks[t].contextKey = c
    /\ k \in SchemaKeys(t)

\* C20: no two tasks of the queue for the same source, target and context
\* share a key, and every step of the run that changes an entry of a catalog
\* is the merge of the one task whose batch holds the entry's key.
C20_SingleWriter ==
    /\ [](\A t \in Tasks : \A u \in Tasks \ {t} :
              SameTarget(t, u) => SchemaKeys(t) \cap SchemaKeys(u) = {})
    /\ [][(pc = "executing" /\ translationPos' # translationPos) =>
            \A p \in PathsOf(translationPos) :
                LET was == Get(Get(translationPos, p[1]), p[2])
                    now == Get(Get(translationPos', p[1]), p[2])
                IN  /\ ContextsOf(now) = ContextsOf(was)
                    /\ \A c \in ContextsOf(was) :
                          /\ MsgidsOf(now, c) = MsgidsOf(was, c)
                          /\ \A k \in MsgidsOf(was, c) :
                                EntryOf(now, c, k) # EntryOf(was, c, k) =>
                                    \E t \in Tasks :
                                        /\ Owns(t, p, c, k)
                                        /\ Returned(t)
                                        /\ \A u \in Tasks \ {t} : ~Owns(u, p, c, k)]_vars

\* two tasks of the same context of the same catalog both merged, each its
\* own key
C20_Witness ==
    \E t \in Fulfilled : \E u \in Fulfilled \ {t} :
        LET ctx == Get(TaskPo(t).translations, translationTasks[t].contextKey)
        IN  /\ SameTarget(t, u)
            /\ \A k \in SchemaKeys(t) \cup SchemaKeys(u) : Get(ctx, k).msgstr = <<StrX>>

---------------------------------------------------------------------------
(* Properties of a whole run (Spec) *)

\* C21: an entry whose merged response was the empty string, its translated
\* form [""], is not in the backlog a later extraction over the same catalog
\* returns.
C21_EmptyResultLeavesBacklog ==
    \A t \in Fulfilled :
        LET c == translationTasks[t].contextKey
        IN  \A k \in SchemaKeys(t) :
               ( /\ HasOwn(taskObject[t], k)
                 /\ Get(taskObject[t], k) = EmptyString
                 /\ HasEntry(TaskPo(t), c, k)
                 /\ EntryOf(TaskPo(t), c, k).msgstr = <<EmptyString>> )
                   => k \notin BacklogOf(TaskPo(t), c)

\* C22: at the end of the run a task whose request returned after no more
\* than maxRetries failed ones has a successful outcome, and every key of the
\* returned object holds the returned string, trimmed, in the task's catalog.
C22_RetriedTaskMerges ==
    pc = "done" =>
        \A t \in Tasks :
            (taskObject[t] # Undefined /\ retries[t] <= maxRetries) =>
                /\ taskPc[t] = "fulfilled"
                /\ results[t].status = "fulfilled" /\ results[t].success
                /\ LET c   == translationTasks[t].contextKey
                       obj == taskObject[t]
                   IN  \A n \in 1..Size(obj) :
                          /\ HasEntry(TaskPo(t), c, KeyAt(obj, n))
                          /\ LET msgstr == EntryOf(TaskPo(t), c, KeyAt(obj, n)).msgstr
                             IN  /\ Len(msgstr) = 1
                                 /\ IsTrimOf(msgstr[1], ValueAt(obj, n))

\* a task that failed once and then returned a padded string, merged, beside
\* a task of the same catalog that was rejected
C22_Witness ==
    /\ pc = "done"
    /\ \E t \in Fulfilled : \E u \in Rejected :
          /\ retries[t] = 1 /\ attempts[t] = 2
          /\ translationTasks[u].translationPath = translationTasks[t].translationPath
          /\ \A k \in SchemaKeys(t) :
                /\ HasOwn(taskObject[t], k)
                /\ Get(taskObject[t], k) = StrPadded
                /\ EntryOf(TaskPo(t), translationTasks[t].contextKey, k).msgstr = <<StrX>>

---------------------------------------------------------------------------
(* Properties of the pipeline before scheduling (SpecPlan) *)

\* the configured locales a source path is named after: its file name is
\* the locale code followed by ".po"
EncodedLocales(source) ==
    {l \in {config.locales[n] : n \in 1..Len(config.locales)} :
        LET cs  == Chars(source)
            suf == Chars(l) \o CharsPo
        IN  /\ Len(cs) >= Len(suf)
            /\ SubSeq(cs, Len(cs) - Len(suf) + 1, Len(cs)) = suf
            /\ (Len(cs) = Len(suf) \/ cs[Len(cs) - Len(suf)] = "/")}

\* table[sourcePath][translationPath] is there
HasPair(table, sourcePath, translationPath) ==
    IF HasOwn(table, sourcePath)
    THEN HasOwn(Get(table, sourcePath), translationPath)
    ELSE FALSE

\* C23: for a file entry whose source is named after a configured locale,
\* createTranslationBatches stores no catalog and no batches for that
\* locale's path, does not store the source as its own target, and stores a
\* catalog and batches for every other locale whose file exists.
C23_SourceLocaleExcluded ==
    pc = "planned" =>
        \A n \in 1..Len(config.files) :
            LET file == config.files[n]
                sourcePath == PathJoin(config.base_path, file.source)
            IN  EncodedLocales(file.source) # {} =>
                  /\ ~HasPair(translationPos, sourcePath, sourcePath)
                  /\ \A m \in 1..Len(config.locales) :
                        LET locale == config.locales[m]
                            translationPath == GetTranslationPath(file.translation, locale)
                        IN  IF locale \in EncodedLocales(file.source)
                            THEN /\ ~HasPair(translationPos, sourcePath, translationPath)
                                 /\ ~HasPair(translationBatches, sourcePath, translationPath)
                            ELSE HasOwn(files, translationPath) =>
                                    /\ HasPair(translationPos, sourcePath, translationPath)
                                    /\ HasPair(translationBatches, sourcePath,
                                               translationPath)

\* a configured source file, or the file of a configured locale, is not on
\* the disk at the path createTranslationBatches reads
MissingFile ==
    \E n \in 1..Len(config.files) :
        \/ ~HasOwn(files, PathJoin(config.base_path, config.files[n].source))
        \/ \E m \in 1..Len(config.locales) :
              ~HasOwn(files, GetTranslationPath(config.files[n].translation,
                                                config.locales[m]))

\* C24: with a configured source or target file missing, the pipeline ends
\* before scheduling: no task is queued and no request is issued.
C24_MissingFileAborts ==
    MissingFile =>
        /\ pc \notin {"executing", "done"}
        /\ translationTasks = <<>>
        /\ \A t \in 1..Len(attempts) : attempts[t] = 0

---------------------------------------------------------------------------
(* Properties of the run-state tables, the queue and the pauses (Spec) *)

C26_TablesPopulatedAndStable ==
    /\ [](pc \in {"planned", "executing", "done"} =>
             /\ PathsOf(translationBatches) \subseteq PathsOf(translationPos)
             /\ \A t \in Tasks :
                   /\ translationTasks[t].translationPo
                         = <<translationTasks[t].sourcePath,
                             translationTasks[t].translationPath>>
                   /\ translationTasks[t].translationPo \in PathsOf(translationPos)
                   /\ translationTasks[t].translationPo \in PathsOf(translationBatches))
    /\ [][pc = "executing" =>
             /\ translationBatches' = translationBatches
             /\ translationTasks' = translationTasks
             /\ PathsOf(translationPos') = PathsOf(translationPos)]_vars

\* tasks of two catalogs, one of them merged
C26_Witness ==
    /\ pc = "done"
    /\ Cardinality(PathsOf(translationPos)) = 2
    /\ \E t \in Fulfilled : \E u \in Tasks :
          /\ translationTasks[t].translationPo # translationTasks[u].translationPo
          /\ TaskPo(t) # PoIn(plannedPos, t)

\* C27: a pause starts only when a request failed and retries are left; the
\* end of a pause issues one request; a request is issued only at the task's
\* start or at the end of a pause; a request that returns, or that fails
\* with the retries exhausted, settles the task at once; a task is nowhere
\* else than idle, at a request, at a pause or settled.
C27_RetryPauses ==
    /\ [](\A t \in 1..Len(taskPc) :
             /\ taskPc[t] \in {"idle", "request", "delay", "fulfilled", "rejected"}
             /\ taskPc[t] = "idle" => attempts[t] = 0 /\ retries[t] = 0
             /\ taskPc[t] = "request" => attempts[t] = retries[t] + 1
             /\ taskPc[t] = "delay" =>
                   attempts[t] = retries[t] /\ 1 <= retries[t] /\ retries[t] <= maxRetries)
    /\ [][pc = "executing" =>
             \A t \in Tasks :
                 /\ (taskPc[t] # "delay" /\ taskPc'[t] = "delay") =>
                       /\ taskPc[t] = "request"
                       /\ retries'[t] = retries[t] + 1
                       /\ attempts'[t] = attempts[t]
                 /\ (taskPc[t] = "delay" /\ taskPc'[t] # "delay") =>
                       /\ taskPc'[t] = "request"
                       /\ attempts'[t] = attempts[t] + 1
                       /\ retries'[t] = retries[t]
                 /\ attempts'[t] # attempts[t] =>
                       /\ attempts'[t] = attempts[t] + 1
                       /\ taskPc[t] \in {"idle", "delay"}
                       /\ taskPc'[t] = "request"
                 /\ (taskPc[t] = "request" /\ taskPc'[t] # "request") =>
                       \/ taskPc'[t] = "fulfilled" /\ retries'[t] = retries[t]
                       \/ taskPc'[t] = "rejected" /\ retries'[t] = maxRetries + 1
                       \/ taskPc'[t] = "delay" /\ retries'[t] <= maxRetries
                 /\ Settled(taskPc[t]) =>
                       taskPc'[t] = taskPc[t] /\ attempts'[t] = attempts[t]]_vars

\* one task fulfilled at its first request, one rejected after a pause
C27_Witness ==
    /\ pc = "done"
    /\ maxRetries = 1
    /\ \E t \in Fulfilled : attempts[t] = 1 /\ retries[t] = 0
    /\ \E t \in Rejected : attempts[t] = 2 /\ retries[t] = 2

\* the index of task t's batch
BatchIndex(t) ==
    CHOOSE n \in 0..Len(translationTasks) : NumberKey(n) = translationTasks[t].batchNumber

\* the tasks of the queue made for batch b of context c of the pair p
TasksFor(p, c, b) ==
    {t \in Tasks : /\ translationTasks[t].sourcePath = p[1]
                   /\ translationTasks[t].translationPath = p[2]
                   /\ translationTasks[t].contextKey = c
                   /\ translationTasks[t].batchNumber = b}

\* the batches planned for the pair p as <<pair, context, batch number>>
BatchesOfPair(p) ==
    LET pathBatches == Get(Get(translationBatches, p[1]), p[2])
    IN  UNION {{<<p, KeyAt(pathBatches, i), KeyAt(ValueAt(pathBatches, i), j)>> :
                   j \in 1..Size(ValueAt(pathBatches, i))} : i \in 1..Size(pathBatches)}

PlannedBatches == UNION {BatchesOfPair(p) : p \in PathsOf(translationBatches)}

\* C30: the queue has one task for every planned batch and no other; tasks
\* of one source, of one target and of one context are contiguous, and
\* within a context the batch indices ascend; the tasks started so far are
\* the whole windows up to the current one, so a batch never starts in a
\* later window than a batch of higher index of the same target and context.
C30_QueueOrderAndWindows ==
    pc \in {"executing", "done"} =>
        /\ \A b \in PlannedBatches : Cardinality(TasksFor(b[1], b[2], b[3])) = 1
        /\ \A t \in Tasks :
              /\ <<translationTasks[t].translationPo, translationTasks[t].contextKey,
                    translationTasks[t].batchNumber>> \in PlannedBatches
              /\ translationTasks[t].schema
                    = Get(Get(Get(Get(translationBatches, translationTasks[t].sourcePath),
                                  translationTasks[t].translationPath),
                              translationTasks[t].contextKey),
                          translationTasks[t].batchNumber)
        /\ \A t \in Tasks : \A v \in Tasks : \A u \in Tasks :
              (t < u /\ u < v) =>
                  /\ translationTasks[t].sourcePath = translationTasks[v].sourcePath
                        => translationTasks[u].sourcePath = translationTasks[t].sourcePath
                  /\ translationTasks[t].translationPo = translationTasks[v].translationPo
                        => translationTasks[u].translationPo = translationTasks[t].translationPo
                  /\ SameTarget(t, v) => SameTarget(t, u)
        /\ \A t \in Tasks : \A u \in Tasks :
              (SameTarget(t, u) /\ t < u) => BatchIndex(t) < BatchIndex(u)
        /\ {t \in Tasks : attempts[t] >= 1}
              = {t \in Tasks : WindowOf(t) * languageConcurrency
                                  < loopIndex + languageConcurrency}
        /\ \A t \in Tasks : \A u \in Tasks :
              (SameTarget(t, u) /\ BatchIndex(t) < BatchIndex(u)) =>
                  /\ WindowOf(t) <= WindowOf(u)
                  /\ attempts[u] >= 1 => attempts[t] >= 1

\* two batches of one context in different windows, the second not started,
\* in a queue with tasks of two targets
C30_Witness ==
    /\ pc = "executing"
    /\ \E t \in Tasks : \E u \in Tasks :
          /\ SameTarget(t, u)
          /\ BatchIndex(t) < BatchIndex(u)
          /\ WindowOf(t) < WindowOf(u)
          /\ attempts[t] >= 1 /\ attempts[u] = 0
    /\ \E t \in Tasks : \E u \in Tasks :
          translationTasks[t].translationPath # translationTasks[u].translationPath

---------------------------------------------------------------------------
(* Properties of a hung provider call (HungSpec) and termination (FairSpec) *)

\* longest queue for which a hung call is examined
MaxQueue == 4

\* the provider call of task h is pending
HungAt(h) == h <= Len(taskPc) /\ taskPc[h] = "request"

\* every other task of h's window has settled, the fulfilled ones merged
OthersSettled(h) ==
    \A u \in Tasks \ {h} :
        WindowOf(u) = WindowOf(h) =>
            /\ Settled(taskPc[u])
            /\ taskPc[u] = "fulfilled" =>
                  \A n \in 1..Size(taskObject[u]) :
                      LET msgstr == EntryOf(TaskPo(u), translationTasks[u].contextKey,
                                            KeyAt(taskObject[u], n)).msgstr
                      IN  Len(msgstr) = 1 /\ IsTrimOf(msgstr[1], ValueAt(taskObject[u], n))

\* C28: while the provider call of a task is pending the run is not complete
\* and no task of a later window has started; if the call stays pending for
\* ever, the other tasks of its window still settle, the fulfilled ones with
\* their results merged.
C28_HungCallBlocksWindow ==
    \A h \in 1..MaxQueue :
        /\ [](HungAt(h) =>
                 /\ pc = "executing"
                 /\ \A u \in Tasks :
                       WindowOf(u) > WindowOf(h) => taskPc[u] = "idle" /\ attempts[u] = 0)
        /\ (<>[]HungAt(h)) => <>[]OthersSettled(h)

\* the second task of the first window pending, the first one merged, a
\* later window waiting
C28_Witness ==
    /\ pc = "executing"
    /\ languageConcurrency = 2
    /\ Len(translationTasks) >= 3
    /\ HungAt(2)
    /\ taskPc[1] = "fulfilled"
    /\ OthersSettled(2)
    /\ TaskPo(1) # PoIn(plannedPos, 1)
    /\ taskPc[3] = "idle"

\* C29: every batch the planner made holds at least one key (its loop
\* advances), and once the run is planned executeTranslations completes with
\* every task settled; no task issues more than maxRetries + 1 requests.
C29_Termination ==
    /\ [](\A t \in 1..Len(attempts) : attempts[t] <= maxRetries + 1)
    /\ [](pc \in {"planned", "executing", "done"} =>
             \A b \in PlannedBatches :
                 Size(Get(Get(Get(Get(translationBatches, b[1][1]), b[1][2]),
                              b[2]), b[3]).shape) >= 1)
    /\ (pc = "planned") ~>
          (pc = "done" /\ \A t \in Tasks : Settled(taskPc[t]) /\ attempts[t] >= 1)

\* a run of four tasks completed, one of them after maxRetries + 1 requests
C29_Witness ==
    /\ pc = "done"
    /\ Len(translationTasks) = 4
    /\ batchSize = 1
    /\ \E t \in Tasks : attempts[t] = maxRetries + 1 /\ maxRetries = 1
    /\ \A t \in Tasks : Settled(taskPc[t])

---------------------------------------------------------------------------
(* Properties of the locale named in a request (SpecPlan) *)

\* the configured locales for which _getTranslationPath generated the target
\* path of task t from a template with the placeholder
GeneratedFor(t) ==
    {l \in {config.locales[m] : m \in 1..Len(config.locales)} :
        \E n \in 1..Len(config.files) :
            /\ Includes(config.files[n].translation, LocalePlaceholder)
            /\ PathJoin(config.base_path, config.files[n].source)
                   = translationTasks[t].sourcePath
            /\ GetTranslationPath(config.files[n].translation, l)
                   = translationTasks[t].translationPath}

\* C31: the locale of every queued task, which names the language of its
\* provider request, is the locale for which _getTranslationPath generated
\* the task's target path.
C31_TaskLocaleIsTargetLocale ==
    \A t \in 1..Len(translationTasks) :
        \A l \in GeneratedFor(t) :
            translationTasks[t].locale = [tag |-> "string", str |-> l]
---------------------------------------------------------------------------
(* Properties of a whole run on the catalogs (Spec) *)

\* the catalog at the pair p of the table pos
PoAt(pos, p) == Get(Get(pos, p[1]), p[2])

\* entry k of context c of po is outside the backlog: the header, or an
\* entry with a translation
OutsideBacklog(po, c, k) == k = "" \/ ~Pending(EntryOf(po, c, k).msgstr)

\* C32: when executeTranslations has completed, every header entry and every
\* entry that had a non-empty translation when the batches were planned is
\* in its catalog as it was then, whatever the provider returned.
C32_NonBacklogPreserved ==
    pc = "done" =>
        \A p \in PathsOf(plannedPos) :
            \A c \in ContextsOf(PoAt(plannedPos, p)) :
                \A k \in MsgidsOf(PoAt(plannedPos, p), c) :
                    OutsideBacklog(PoAt(plannedPos, p), c, k) =>
                        /\ HasEntry(PoAt(translationPos, p), c, k)
                        /\ EntryOf(PoAt(translationPos, p), c, k)
                               = EntryOf(PoAt(plannedPos, p), c, k)

\* a completed run whose merges changed a catalog that holds a header entry
\* and a translated entry
C32_Witness ==
    /\ pc = "done"
    /\ \E p \in PathsOf(plannedPos) :
          /\ PoAt(translationPos, p) # PoAt(plannedPos, p)
          /\ HasEntry(PoAt(plannedPos, p), "", "")
          /\ \E k \in MsgidsOf(PoAt(plannedPos, p), "") :
                k # "" /\ ~Pending(EntryOf(PoAt(plannedPos, p), "", k).msgstr)
---------------------------------------------------------------------------
(* Properties of the object graph (SpecAlias) *)

\* the header entry object of the catalog po of references
HeaderOf(po) == heap[Get(Get(po.translations, ""), "").addr]

\* C33: no step of synchronization or merge changes the content of the
\* source catalog, its header entry and the translated forms of its entries
\* included, and a merge into one target catalog leaves the content of every
\* other target catalog as it was.
C33_NoAliasing ==
    [][/\ Deref(heap', sourceRef') = Deref(heap, sourceRef)
       /\ \A i \in 1..AliasTargets :
             MergeInto(i) =>
                \A j \in (1..AliasTargets) \ {i} :
                    Deref(heap', targetRefs'[j]) = Deref(heap, targetRefs[j])]_vars

\* two targets took the header entry from the source: both are objects of
\* their own; a merge has stored a new array in the one, while the other
\* still refers to the msgstr array of the source's header
C33_Witness ==
    /\ pc = "synced"
    /\ merged >= 1
    /\ HasEntry(sourceRef, "", "")
    /\ \E i \in 1..AliasTargets : \E j \in (1..AliasTargets) \ {i} :
          /\ HasEntry(targetRefs[i], "", "")
          /\ HasEntry(targetRefs[j], "", "")
          /\ Get(Get(targetRefs[i].translations, ""), "")
                 # Get(Get(sourceRef.translations, ""), "")
          /\ HeaderOf(targetRefs[j]).msgstr = HeaderOf(sourceRef).msgstr
          /\ HeaderOf(targetRefs[i]).msgstr # HeaderOf(sourceRef).msgstr
          /\ heap[HeaderOf(targetRefs[i]).msgstr.addr].items = <<StrX>>
\* the keys of context c of po whose translation is pending
PendingKeys(po, c) ==
    {k \in MsgidsOf(po, c) : k # "" /\ Pending(EntryOf(po, c, k).msgstr)}

\* po has no pending entry
NothingPending(po) == \A c \in ContextsOf(po) : PendingKeys(po, c) = {}

\* the contexts of the batch table as <<pair, context>>
PlannedContexts ==
    UNION {{<<p, KeyAt(Get(Get(translationBatches, p[1]), p[2]), i)>> :
               i \in 1..Size(Get(Get(translationBatches, p[1]), p[2]))} :
           p \in PathsOf(translationBatches)}

\* C34: a context is in the batch table only with a non-empty backlog and
\* at least one batch, and every planned batch holds at least one key; a
\* target catalog without pending entries has no task, and when no target
\* has a pending entry the run ends with an empty queue, no request issued
\* and a summary of 0 successful and 0 failed.
C34_NoEmptyBatches ==
    pc \in {"planned", "executing", "done"} =>
        /\ \A x \in PlannedContexts :
              /\ PendingKeys(PoAt(plannedPos, x[1]), x[2]) # {}
              /\ Size(Get(Get(Get(translationBatches, x[1][1]), x[1][2]), x[2])) >= 1
        /\ \A b \in PlannedBatches :
              Size(Get(Get(Get(Get(translationBatches, b[1][1]), b[1][2]),
                           b[2]), b[3]).shape) >= 1
        /\ pc # "planned" =>
              \A p \in PathsOf(plannedPos) :
                  NothingPending(PoAt(plannedPos, p)) =>
                      \A t \in Tasks :
                          <<translationTasks[t].sourcePath,
                            translationTasks[t].translationPath>> # p
        /\ (pc # "planned" /\ \A p \in PathsOf(plannedPos) :
                                 NothingPending(PoAt(plannedPos, p))) =>
              /\ pc = "done"
              /\ translationTasks = <<>>
              /\ attempts = <<>>
              /\ results = <<>>
              /\ summary = [successful |-> 0, failed |-> 0]

\* a completed run over two target catalogs with entries, none pending
C34_Witness ==
    /\ pc = "done"
    /\ Cardinality(PathsOf(plannedPos)) = 2
    /\ \A p \in PathsOf(plannedPos) :
          /\ NothingPending(PoAt(plannedPos, p))
          /\ HasEntry(PoAt(plannedPos, p), "menu", "1")
    /\ translationTasks = <<>>
    /\ summary = [successful |-> 0, failed |-> 0]
RECURSIVE MergedInOrder(_, _)
\* the table pos after the merges of the first n tasks of the queue, taken
\* in queue order: the final response of every task that fulfilled
MergedInOrder(pos, n) ==
    IF n = 0 THEN pos
    ELSE LET prev == MergedInOrder(pos, n - 1)
             task == translationTasks[n]
         IN  IF taskPc[n] # "fulfilled" THEN prev
             ELSE Store(prev, task.sourcePath, task.translationPath,
                        UpdateTranslationPoWithResults(
                            PoIn(prev, n), task.contextKey, taskObject[n]).po)

\* C35: when the run has completed, the catalogs are those obtained from the
\* planned catalogs by merging every fulfilled task's final response in
\* queue order, whatever the order in which the tasks of a window completed
\* and however their requests and pauses interleaved.
C35_OrderIndependentResult ==
    pc = "done" => translationPos = MergedInOrder(plannedPos, Len(translationTasks))

\* a completed run in which two tasks of one window merged a translation
\* into the same catalog, one of them after a retry
C35_Witness ==
    /\ pc = "done"
    /\ \E t \in Fulfilled : \E u \in Fulfilled \ {t} :
          /\ WindowOf(t) = WindowOf(u)
          /\ translationTasks[t].translationPath = translationTasks[u].translationPath
          /\ retries[t] >= 1
          /\ Size(taskObject[t]) >= 1
          /\ Size(taskObject[u]) >= 1
          /\ \A k \in SchemaKeys(t) \cup SchemaKeys(u) :
                EntryOf(TaskPo(t), translationTasks[t].contextKey, k).msgstr = <<StrX>>
---------------------------------------------------------------------------
(* Properties of a task's life (Spec) *)

\* the step changes, in task t's catalog, the entry of a key of its batch
MergesOwnKey(t) ==
    \E k \in SchemaKeys(t) :
        EntryOf(PoIn(translationPos', t), translationTasks[t].contextKey, k)
            # EntryOf(PoIn(translationPos, t), translationTasks[t].contextKey, k)

\* C36: a task is started once, by the launch of its window, with its first
\* request; a settled task stays as it is; after a request has succeeded the
\* task issues none; a step changes an entry of the task's batch only as the
\* merge of the response the task has just received, in the step in which
\* the task fulfils, so at most once; and a task that ends rejected has no
\* response and has left the entries of its batch as planned.
C36_TaskLifecycle ==
    /\ [](pc = "done" => \A t \in Tasks : Settled(taskPc[t]) /\ attempts[t] >= 1)
    /\ [](\A t \in Tasks :
             /\ taskPc[t] = "idle" <=> attempts[t] = 0
             /\ taskPc[t] = "rejected" =>
                   /\ taskObject[t] = Undefined
                   /\ \A k \in SchemaKeys(t) :
                         EntryOf(TaskPo(t), translationTasks[t].contextKey, k)
                             = EntryOf(PoIn(plannedPos, t),
                                       translationTasks[t].contextKey, k))
    /\ [][pc = "executing" =>
            \A t \in Tasks :
                /\ (taskPc[t] = "idle" /\ taskPc'[t] # "idle") =>
                       /\ taskPc'[t] = "request"
                       /\ attempts'[t] = 1
                       /\ retries'[t] = 0
                /\ taskPc[t] # "idle" => taskPc'[t] # "idle"
                /\ Settled(taskPc[t]) =>
                       /\ taskPc'[t] = taskPc[t]
                       /\ attempts'[t] = attempts[t]
                       /\ taskObject'[t] = taskObject[t]
                       /\ ~MergesOwnKey(t)
                /\ taskObject[t] # Undefined => attempts'[t] = attempts[t]
                /\ MergesOwnKey(t) =>
                       /\ Returned(t)
                       /\ taskPc'[t] = "fulfilled"]_vars

\* a completed run of two windows: a task of the first fulfilled by its
\* second request and merged, a task of the second rejected
C36_Witness ==
    /\ pc = "done"
    /\ \E t \in Fulfilled : \E u \in Rejected :
          /\ WindowOf(t) < WindowOf(u)
          /\ attempts[t] = 2
          /\ \E k \in SchemaKeys(t) :
                /\ HasOwn(taskObject[t], k)
                /\ EntryOf(TaskPo(t), translationTasks[t].contextKey, k).msgstr = <<StrX>>
===========================================================================
